---- MODULE Spec2Model ----
(***************************************************************************)
(* A model of the wiki formatter of trac.wiki (formatter.py).              *)
(*                                                                         *)
(* A line of wiki text is a sequence of lexemes (strings): one lexeme per  *)
(* grammar token ("'''", "__", "||", ...), per blank (" "), per escape     *)
(* character ("!") and per run of ordinary characters ("item1").  The      *)
(* combined pattern matcher is MatchAt, the dispatcher is replace, and     *)
(* every handler is an operator from a Formatter record to the pair        *)
(* [f |-> the Formatter afterwards, ret |-> the text it returns].          *)
(***************************************************************************)
EXTENDS Integers, Sequences, FiniteSets, TLC

VARIABLES
    fmt,      \* the Formatter instance (its attributes)
    pc,       \* where the caller is: "idle", "lines", "sub", "done", "aborted"
    text,     \* the input consumed so far by the running pass
    result,   \* the substituted text of the line being scanned / last scanned
    prev,     \* history: fmt before the last step
    last,     \* history: the input of the last step
    ret,      \* history: the text returned by the last handler
    pass      \* the number of format() calls made on the instance

vars == <<fmt, pc, text, result, prev, last, ret, pass>>

\* ---------------------------------------------------------------- bounds
MaxTokens == 5

\* ------------------------------------------------------- grammar tokens
BOLDITALIC_TOKEN == "'''''"
BOLD_TOKEN == "'''"
ITALIC_TOKEN == "''"
UNDERLINE_TOKEN == "__"
STRIKE_TOKEN == "~~"
SUBSCRIPT_TOKEN == ",,"
SUPERSCRIPT_TOKEN == "^"
INLINE_TOKEN == "(backtick)"
STARTBLOCK == "{{{"
ENDBLOCK == "}}}"
BANG == "!"
SP == " "

\* ------------------------------------------------------------- helpers
Min(S) == CHOOSE x \in S : \A y \in S : x <= y

RemoveAt(s, i) == SubSeq(s, 1, i - 1) \o SubSeq(s, i + 1, Len(s))

Reverse(s) == [i \in 1..Len(s) |-> s[Len(s) + 1 - i]]

\* ------------------------------------------------------ Formatter state
\* Python's None
NONE == "None"

\* self.code_processor = None
NoProcessor == [name |-> NONE, processor |-> NONE, error |-> NONE]

\* Formatter.__init__: only _anchors and _open_tags are assigned there; the
\* other attributes come into being in format(), which assigns each of them
\* before anything reads it, and they are shown here with those values.
\* The attribute outline is the one OutlineFormatter.format adds.
Formatter_init ==
    [anchors |-> <<>>,
     open_tags |-> <<>>,
     list_stack |-> <<>>,
     quote_stack |-> <<>>,
     tabstops |-> <<>>,
     in_code_block |-> 0,
     in_table |-> 0,
     in_def_list |-> 0,
     in_table_row |-> 0,
     in_table_cell |-> 0,
     paragraph_open |-> 0,
     in_list_item |-> FALSE,
     in_quote |-> FALSE,
     code_processor |-> NoProcessor,
     code_text |-> <<>>,
     flavor |-> "default",
     outline |-> <<>>,
     out |-> <<>>]

\* ------------------------------------------------------ toggle-tag stack
tag_open_p(f, tag) == \E i \in 1..Len(f.open_tags) : f.open_tags[i] = tag

\* close_tag with the frames above the target re-opened top first.
RECURSIVE close_tag_reopen_reversed(_, _, _)
close_tag_reopen_reversed(tags, i, tag) ==
    IF i = 0 THEN [tags |-> tags, tmp |-> <<>>]
    ELSE IF tags[i][2] = tag
         THEN LET rest == RemoveAt(tags, i)
              IN  [tags |-> rest,
                   tmp |-> <<tags[i][2]>> \o
                           [j \in 1..(Len(rest) - i + 1) |-> rest[Len(rest) + 1 - j][1]]]
         ELSE LET r == close_tag_reopen_reversed(tags, i - 1, tag)
              IN  [tags |-> r.tags, tmp |-> <<tags[i][2]>> \o r.tmp]

RECURSIVE close_tag_from(_, _, _)
close_tag_from(tags, i, tag) ==
    IF i = 0 THEN [tags |-> tags, tmp |-> <<>>]
    ELSE IF tags[i][2] = tag
         THEN LET rest == RemoveAt(tags, i)
              IN  [tags |-> rest,
                   tmp |-> <<tags[i][2]>> \o
                           [j \in 1..(Len(rest) - i + 1) |-> rest[i + j - 1][1]]]
         ELSE LET r == close_tag_from(tags, i - 1, tag)
              IN  [tags |-> r.tags, tmp |-> <<tags[i][2]>> \o r.tmp]

close_tag(f, tag) ==
    LET r == close_tag_from(f.open_tags, Len(f.open_tags), tag)
    IN  [f |-> [f EXCEPT !.open_tags = r.tags], ret |-> r.tmp]

open_tag(f, open, close) ==
    [f EXCEPT !.open_tags = Append(@, <<open, close>>)]

\* A variant that writes the closing tag and leaves the frame on the stack.
simple_tag_handler_keeps_frame(f, open, close) ==
    IF tag_open_p(f, <<open, close>>)
    THEN [f |-> f, ret |-> <<close>>]
    ELSE [f |-> open_tag(f, open, close), ret |-> <<open>>]

\* A variant that opens a frame whether or not the pair is open.
simple_tag_handler_always_opens(f, open, close) ==
    [f |-> open_tag(f, open, close), ret |-> <<open>>]

simple_tag_handler(f, open, close) ==
    IF tag_open_p(f, <<open, close>>)
    THEN close_tag(f, close)
    ELSE [f |-> open_tag(f, open, close), ret |-> <<open>>]

bold_formatter(f, m) == simple_tag_handler(f, "<strong>", "</strong>")

italic_formatter(f, m) == simple_tag_handler(f, "<i>", "</i>")

\* The combined token with the italic frame re-opened after the bold toggle.
bolditalic_reopening(f, m) ==
    LET italic == <<"<i>", "</i>">>
        italic_open == tag_open_p(f, italic)
        f1 == IF italic_open THEN close_tag(f, italic[2]).f ELSE f
        tmp1 == IF italic_open THEN <<italic[2]>> ELSE <<>>
        b == bold_formatter(f1, m)
    IN  [f |-> open_tag(b.f, italic[1], italic[2]),
         ret |-> tmp1 \o b.ret \o <<italic[1]>>]

bolditalic_formatter(f, m) ==
    LET italic == <<"<i>", "</i>">>
        italic_open == tag_open_p(f, italic)
        f1 == IF italic_open THEN close_tag(f, italic[2]).f ELSE f
        tmp1 == IF italic_open THEN <<italic[2]>> ELSE <<>>
        b == bold_formatter(f1, m)
    IN  IF ~italic_open
        THEN [f |-> open_tag(b.f, italic[1], italic[2]),
              ret |-> tmp1 \o b.ret \o <<italic[1]>>]
        ELSE [f |-> b.f, ret |-> tmp1 \o b.ret]

MatchText(m) == SubSeq(m.line, m.pos, m.pos + m.len - 1)

escapable_toggle(f, m, open, close) ==
    IF MatchText(m)[1] = BANG
    THEN [f |-> f, ret |-> Tail(MatchText(m))]
    ELSE simple_tag_handler(f, open, close)

underline_formatter(f, m) ==
    escapable_toggle(f, m, "<span class=\"underline\">", "</span>")

strike_formatter(f, m) == escapable_toggle(f, m, "<del>", "</del>")

subscript_formatter(f, m) == escapable_toggle(f, m, "<sub>", "</sub>")

superscript_formatter(f, m) == escapable_toggle(f, m, "<sup>", "</sup>")

\* ------------------------------------------------------------ output
LINESEP == "\n"

\* self.out.write(...): the output sink is the sequence of items written.
write(f, items) == [f EXCEPT !.out = @ \o items]

\* --------------------------------------------------------- paragraphs
open_paragraph(f) ==
    IF f.paragraph_open = 0
    THEN [write(f, <<"<p>", LINESEP>>) EXCEPT !.paragraph_open = 1]
    ELSE f

\* The closing tags of the open toggle frames, top of the stack first.
PopAllTags(tags) == [i \in 1..Len(tags) |-> tags[Len(tags) + 1 - i][2]]

\* A variant that closes the toggle frames from the bottom of the stack.
close_paragraph_bottom_first(f) ==
    IF f.paragraph_open # 0
    THEN [write(f, [i \in 1..Len(f.open_tags) |-> f.open_tags[i][2]]
                   \o <<"</p>", LINESEP>>)
             EXCEPT !.open_tags = <<>>, !.paragraph_open = 0]
    ELSE f

close_paragraph(f) ==
    IF f.paragraph_open # 0
    THEN [write(f, PopAllTags(f.open_tags) \o <<"</p>", LINESEP>>)
             EXCEPT !.open_tags = <<>>, !.paragraph_open = 0]
    ELSE f

\* -------------------------------------------------------------- tables
close_table_cell(f) ==
    IF f.in_table_cell # 0
    THEN write([f EXCEPT !.in_table_cell = 0], <<"</td>">>)
    ELSE f

close_table_row(f) ==
    IF f.in_table_row # 0
    THEN write(close_table_cell([f EXCEPT !.in_table_row = 0]), <<"</tr>">>)
    ELSE f

close_table(f) ==
    IF f.in_table # 0
    THEN [write(close_table_row(f), <<"</table>", LINESEP>>)
             EXCEPT !.in_table = 0]
    ELSE f

\* self.in_def_list is 0 after format() and True/False afterwards.
close_def_list(f) ==
    [(IF f.in_def_list # 0 THEN write(f, <<"</dd>", "</dl>", LINESEP>>) ELSE f)
        EXCEPT !.in_def_list = 0]

\* ------------------------------------------------------------ tabstops
RECURSIVE StopsBelow(_, _)
StopsBelow(tabstops, depth) ==
    IF tabstops = <<>> \/ Head(tabstops) >= depth THEN <<>>
    ELSE <<Head(tabstops)>> \o StopsBelow(Tail(tabstops), depth)

\* A variant that appends the depth and truncates nothing.
set_tab_appending(f, depth) == [f EXCEPT !.tabstops = Append(@, depth)]

set_tab(f, depth) ==
    [f EXCEPT !.tabstops = Append(StopsBelow(f.tabstops, depth), depth)]

\* ---------------------------------------------------- lists and quotes
\* A variant that reads the offset of the outermost opened list.
get_list_depth_outermost(f) ==
    IF f.list_stack # <<>> THEN f.list_stack[1][2] ELSE 0

get_list_depth(f) ==
    IF f.list_stack # <<>> THEN f.list_stack[Len(f.list_stack)][2] ELSE 0

get_quote_depth(f) ==
    IF f.quote_stack # <<>> THEN f.quote_stack[Len(f.quote_stack)] ELSE 0


RECURSIVE set_list_depth(_, _, _, _, _)
RECURSIVE set_quote_depth(_, _, _)

\* A variant of close_list that keeps the lists of depth one.
close_list_keep_first(f) == set_list_depth(f, 1, NONE, NONE, NONE)

close_list(f) == set_list_depth(f, 0, NONE, NONE, NONE)

close_indentation(f) == set_quote_depth(f, 0, FALSE)

\* A variant that closes the list and leaves its last item open.
pop_list_item_open(f, tp) ==
    write([f EXCEPT !.list_stack = SubSeq(@, 1, Len(@) - 1)],
          <<"</" \o tp \o ">">>)

\* _set_list_depth.close_list(tp)
pop_list(f, tp) ==
    write([f EXCEPT !.list_stack = SubSeq(@, 1, Len(@) - 1)],
          <<"</li>", "</" \o tp \o ">">>)

\* _set_list_depth: the while loop that closes the lists deeper than depth.
RECURSIVE pop_deeper_lists(_, _)
pop_deeper_lists(f, depth) ==
    IF f.list_stack = <<>> \/ depth >= f.list_stack[Len(f.list_stack)][2]
    THEN f
    ELSE pop_deeper_lists(pop_list(f, f.list_stack[Len(f.list_stack)][1]), depth)

\* The attributes of the list's start tag.
list_attrs(list_class, start) ==
    (IF list_class # NONE THEN " class=\"" \o list_class \o "\"" ELSE "")
    \o (IF start # NONE THEN " start=\"" \o start \o "\"" ELSE "")

\* _set_list_depth.open_list(), after the three closes at its start.
push_list(f, depth, new_type, list_class, start) ==
    write(set_tab([f EXCEPT !.list_stack = Append(@, <<new_type, depth>>)],
                  depth),
          <<"<" \o new_type \o list_attrs(list_class, start) \o ">", "<li>">>)

\* _set_list_depth.open_list()
open_list(f, depth, new_type, list_class, start) ==
    push_list(close_indentation(close_paragraph(close_table(f))),
              depth, new_type, list_class, start)

\* _set_list_depth with depth at most the list depth, after its while
\* loop; opens tells whether open_list() is to be called on the outcome.
list_depth_opens(f1, depth, new_type) ==
    /\ depth > 0
    /\ \/ f1.list_stack = <<>>
       \/ new_type # NONE /\ f1.list_stack[Len(f1.list_stack)][1] # new_type

\* A variant that leaves the recorded depth of the frame as it was.
list_depth_popped_unadjusted(f1, depth, new_type) ==
    IF depth > 0 /\ f1.list_stack # <<>>
    THEN IF new_type # NONE /\ f1.list_stack[Len(f1.list_stack)][1] # new_type
         THEN pop_list(f1, f1.list_stack[Len(f1.list_stack)][1])
         ELSE write(f1, <<"</li>", "<li>">>)
    ELSE f1

list_depth_popped(f1, depth, new_type) ==
    IF depth > 0 /\ f1.list_stack # <<>>
    THEN IF new_type # NONE /\ f1.list_stack[Len(f1.list_stack)][1] # new_type
         THEN pop_list(f1, f1.list_stack[Len(f1.list_stack)][1])
         ELSE write([f1 EXCEPT !.list_stack[Len(f1.list_stack)][2] = depth],
                    <<"</li>", "<li>">>)
    ELSE f1

\* g is the formatter after the while loop of _set_list_depth.
list_depth_after(f, g, depth, new_type, list_class, start) ==
    IF depth > get_list_depth(f) \/ list_depth_opens(g, depth, new_type)
    THEN open_list(IF depth > get_list_depth(f) THEN f
                   ELSE list_depth_popped(g, depth, new_type),
                   depth, new_type, list_class, start)
    ELSE list_depth_popped(g, depth, new_type)

set_list_depth(f, depth, new_type, list_class, start) ==
    list_depth_after(f, pop_deeper_lists(f, depth), depth, new_type,
                     list_class, start)

\* _set_quote_depth.open_quote.open_one_quote(d)
open_one_quote(f, d, citation) ==
    write(set_tab([f EXCEPT !.quote_stack = Append(@, d)], d),
          <<IF citation THEN "<blockquote class=\"citation\">"
            ELSE "<blockquote>", LINESEP>>)

RECURSIVE open_quotes_upto(_, _, _)
\* for d in range(from, upto + 1): open_one_quote(d)
open_quotes_upto(f, from, upto) ==
    IF from > upto THEN f
    ELSE open_quotes_upto(open_one_quote(f, from, TRUE), from + 1, upto)

\* _set_quote_depth.open_quote(depth), after the three closes at its start
open_quote_closed(f1, depth, citation, quote_depth) ==
    IF citation
    THEN open_quotes_upto(f1, quote_depth + 1, depth)
    ELSE open_one_quote(f1, depth, FALSE)

\* _set_quote_depth.open_quote(depth); quote_depth is the depth read when
\* _set_quote_depth was entered.
open_quote(f, depth, citation, quote_depth) ==
    open_quote_closed(close_list(close_paragraph(close_table(f))),
                      depth, citation, quote_depth)

\* _set_quote_depth.close_quote()
close_quote(f) ==
    write([close_paragraph(close_table(f))
              EXCEPT !.quote_stack = SubSeq(@, 1, Len(@) - 1)],
          <<"</blockquote>", LINESEP>>)

\* The loop over the copy of the tabstops, in ascending order; the last
\* parameter tells whether open_quote is called for the stop tab.
RECURSIVE open_quotes_at_tabs(_, _, _, _)
open_quote_if(f, opens, tab, citation, quote_depth) ==
    IF opens THEN open_quote(f, tab, citation, quote_depth) ELSE f

\* A variant of the loop that opens a quote at every stop, also at those
\* that are not above the quote depth.
RECURSIVE open_quotes_at_every_tab(_, _, _, _)
open_quotes_at_every_tab(f, tabs, citation, quote_depth) ==
    IF tabs = <<>> THEN f
    ELSE open_quotes_at_every_tab(
            open_quote_if(f, TRUE, Head(tabs), citation, quote_depth),
            Tail(tabs), citation, quote_depth)

open_quotes_at_tabs(f, tabs, citation, quote_depth) ==
    IF tabs = <<>> THEN f
    ELSE open_quotes_at_tabs(
            open_quote_if(f, Head(tabs) > quote_depth, Head(tabs), citation,
                          quote_depth),
            Tail(tabs), citation, quote_depth)

RECURSIVE close_deeper_quotes(_, _)
close_deeper_quotes(f, depth) ==
    IF f.quote_stack = <<>> \/ depth >= f.quote_stack[Len(f.quote_stack)]
    THEN f
    ELSE close_deeper_quotes(close_quote(f), depth)

\* _set_quote_depth with depth above the quote depth, after _set_tab(depth)
quote_depth_raised(t, citation, quote_depth) ==
    open_quotes_at_tabs(t, t.tabstops, citation, quote_depth)

\* _set_quote_depth with depth at most the quote depth, after its while loop
quote_depth_lowered(c, depth, citation, quote_depth) ==
    IF ~citation /\ depth > 0
    THEN IF c.quote_stack # <<>>
         THEN [c EXCEPT !.quote_stack[Len(c.quote_stack)] = depth]
         ELSE open_quote(c, depth, citation, quote_depth)
    ELSE c

\* if depth > 0: self.in_quote = True
in_quote_if(f1, depth) == IF depth > 0 THEN [f1 EXCEPT !.in_quote = TRUE] ELSE f1

set_quote_depth(f, depth, citation) ==
    in_quote_if(
        IF depth > get_quote_depth(f)
        THEN quote_depth_raised(set_tab(f, depth), citation, get_quote_depth(f))
        ELSE quote_depth_lowered(close_deeper_quotes(f, depth), depth, citation,
                                 get_quote_depth(f)),
        depth)

\* ------------------------------------------------- lexemes of a line
TAB == "\t"

\* line.replace('\t', ' '*8)
RECURSIVE ExpandTabs(_)
ExpandTabs(line) ==
    IF line = <<>> THEN <<>>
    ELSE (IF Head(line) = TAB THEN [i \in 1..8 |-> SP] ELSE <<Head(line)>>)
         \o ExpandTabs(Tail(line))

\* \s of the patterns
IsSpace(x) == x \in {SP, TAB, LINESEP}

RECURSIVE LeadingSpaces(_)
LeadingSpaces(line) ==
    IF line = <<>> \/ ~IsSpace(Head(line)) THEN 0
    ELSE 1 + LeadingSpaces(Tail(line))

TrailingSpaces(line) == LeadingSpaces(Reverse(line))

\* line.strip()
strip(line) ==
    IF LeadingSpaces(line) = Len(line) THEN <<>>
    ELSE SubSeq(line, LeadingSpaces(line) + 1, Len(line) - TrailingSpaces(line))

\* The number of consecutive lexemes equal to x from position pos on.
RECURSIVE RunLen(_, _, _)
RunLen(line, pos, x) ==
    IF pos > Len(line) \/ line[pos] # x THEN 0
    ELSE 1 + RunLen(line, pos + 1, x)

\* escape(text): the character entities of &, < and >
Escape(x) ==
    CASE x = "&" -> "&amp;"
      [] x = "<" -> "&lt;"
      [] x = ">" -> "&gt;"
      [] x = "<bad" -> "&lt;bad"
      [] x = "<b>" -> "&lt;b&gt;"
      [] x = "<script>" -> "&lt;script&gt;"
      [] OTHER -> x

EscapeAll(items) == [i \in 1..Len(items) |-> Escape(items[i])]

\* Lexemes matched by the list-marker alternatives [-*], \d+\., [a-zA-Z]\.
\* and [ivxIVX]{1,5}\. and the first character of each (listid).
ListMarkers == {"-", "*", "0.", "1.", "3.", "a.", "A.", "i.", "I."}

ListId(marker) ==
    CASE marker = "0." -> "0" [] marker = "1." -> "1" [] marker = "3." -> "3"
      [] marker = "a." -> "a" [] marker = "A." -> "A" [] marker = "i." -> "i"
      [] marker = "I." -> "I" [] OTHER -> marker

\* Short links sns:stgt, long links [lns:ltgt label] and [rel label].
ShrefLexemes ==
    {"wiki:Page", "http://x.org", "mailto:me", "trac:ticket:1", "mw:a:b",
     "nosuch:x", "wiki://x", "w:Page", "t:ticket:1", "both:a"}

LhrefLexemes == {"[wiki:Page label]", "[nosuch:x]", "[/rel label]", "[...]"}

LinkNs(x) ==
    CASE x \in {"wiki:Page", "[wiki:Page label]", "wiki://x"} -> "wiki"
      [] x = "w:Page" -> "w"
      [] x = "t:ticket:1" -> "t"
      [] x = "both:a" -> "both"
      [] x = "http://x.org" -> "http"
      [] x = "mailto:me" -> "mailto"
      [] x = "trac:ticket:1" -> "trac"
      [] x = "mw:a:b" -> "mw"
      [] x \in {"nosuch:x", "[nosuch:x]"} -> "nosuch"
      [] OTHER -> NONE

\* The target, as the sequence of its parts around each ":"; a target that
\* begins with "//" has "//" as its first part.
LinkTarget(x) ==
    CASE x \in {"wiki:Page", "[wiki:Page label]", "w:Page"} -> <<"Page">>
      [] x = "wiki://x" -> <<"//", "x">>
      [] x = "t:ticket:1" -> <<"ticket", "1">>
      [] x = "both:a" -> <<"a">>
      [] x = "http://x.org" -> <<"//", "x.org">>
      [] x = "mailto:me" -> <<"me">>
      [] x = "trac:ticket:1" -> <<"ticket", "1">>
      [] x = "mw:a:b" -> <<"a", "b">>
      [] x \in {"nosuch:x", "[nosuch:x]"} -> <<"x">>
      [] OTHER -> <<>>

LinkLabel(x) ==
    CASE x \in {"[wiki:Page label]", "[/rel label]"} -> "label"
      [] OTHER -> NONE

LinkRel(x) ==
    CASE x = "[/rel label]" -> <<"/rel">>
      [] x = "[...]" -> <<"...">>
      [] OTHER -> <<>>

\* Macro calls [[name]] and [[name(args)]].
MacroLexemes ==
    {"[[BR]]", "[[TitleIndex]]", "[[Image]]", "[[NoSuchMacro]]",
     "[[html(<b>)]]"}

MacroName(x) ==
    CASE x = "[[BR]]" -> "BR"
      [] x = "[[TitleIndex]]" -> "TitleIndex"
      [] x = "[[Image]]" -> "Image"
      [] x = "[[NoSuchMacro]]" -> "NoSuchMacro"
      [] x = "[[html(<b>)]]" -> "html"

\* macroargs: the lines of the argument text (None when there is none)
MacroArgs(x) == IF x = "[[html(<b>)]]" THEN <<<<"<b>">>>> ELSE <<>>

\* ------------------------------------------------- pattern rule table
pre_rules ==
    <<"bolditalic", "bold", "italic", "underline", "strike", "subscript",
      "superscript", "inlinecode", "inlinecode2">>

post_rules ==
    <<"citation", "htmlescape", "shref", "lhref", "macro", "heading", "list",
      "definition", "indent", "last_table_cell", "table_cell">>

\* The token of a font-style rule and whether its pattern starts with "!?".
rule_token ==
    [bolditalic |-> BOLDITALIC_TOKEN, bold |-> BOLD_TOKEN,
     italic |-> ITALIC_TOKEN, underline |-> UNDERLINE_TOKEN,
     strike |-> STRIKE_TOKEN, subscript |-> SUBSCRIPT_TOKEN,
     superscript |-> SUPERSCRIPT_TOKEN]

rule_bang ==
    [bolditalic |-> FALSE, bold |-> FALSE, italic |-> FALSE,
     underline |-> TRUE, strike |-> TRUE, subscript |-> TRUE,
     superscript |-> TRUE]

\* Length (in lexemes) of the match of "!?" followed by one lexeme of toks
\* (bang) or of one lexeme of toks (no bang) at pos; 0 when there is none.
TokenLen(toks, bang, line, pos) ==
    IF line[pos] \in toks THEN 1
    ELSE IF bang /\ line[pos] = BANG /\ pos < Len(line) /\ line[pos + 1] \in toks
         THEN 2
         ELSE 0

\* !?OPEN(.*?)CLOSE: up to the first CLOSE after the OPEN
SpanLen(open, close, line, pos) ==
    LET start == IF line[pos] = BANG THEN pos + 1 ELSE pos
        ends == {q \in (start + 1)..Len(line) : line[q] = close}
    IN  IF start <= Len(line) /\ line[start] = open /\ ends # {}
           /\ \A q \in start..Min(ends) : line[q] # LINESEP
        THEN Min(ends) - pos + 1
        ELSE 0

\* ^(?P<cdepth>>(?: *>)*): p is the position of the last ">" matched so far
RECURSIVE CitationEnd(_, _)
CitationEnd(line, p) ==
    LET q == p + 1 + RunLen(line, p + 1, SP)
    IN  IF q <= Len(line) /\ line[q] = ">" THEN CitationEnd(line, q) ELSE p

\* ^\s*(?P<hdepth>=+)\s.*\s(?P=hdepth)\s*$
HeadingDepth(line) == RunLen(line, LeadingSpaces(line) + 1, "=")

HeadingLen(line) ==
    LET k == LeadingSpaces(line)
        n == HeadingDepth(line)
        e == Len(line) - TrailingSpaces(line)
    IN  IF /\ n >= 1
           /\ k + n + 1 < e - n
           /\ IsSpace(line[k + n + 1])
           /\ IsSpace(line[e - n])
           /\ \A q \in (e - n + 1)..e : line[q] = "="
           /\ \A q \in 1..Len(line) : line[q] # LINESEP
        THEN Len(line)
        ELSE 0

\* ^(?P<ldepth>\s+)(?:[-*]|\d+\.|[a-zA-Z]\.|[ivxIVX]{1,5}\.) followed by " "
ListLen(line) ==
    LET k == LeadingSpaces(line)
    IN  IF k >= 1 /\ k + 2 <= Len(line) /\ line[k + 1] \in ListMarkers
           /\ line[k + 2] = SP
        THEN k + 2
        ELSE 0

\* ^\s+((?:`.*?`|{{{.*?}}}|[^`{])+?::)(?:\s+|$): the term runs to the first
\* "::" that is followed by white space or the end of the line.
DefinitionLen(line) ==
    LET k == LeadingSpaces(line)
        seps == {q \in 3..Len(line) :
                    /\ line[q] = "::"
                    /\ q = Len(line) \/ IsSpace(line[q + 1])
                    /\ \A j \in 1..(q - 1) :
                          line[j] \notin {INLINE_TOKEN, STARTBLOCK, LINESEP}}
    IN  IF k >= 1 /\ seps # {}
        THEN Min(seps) + RunLen(line, Min(seps) + 1, SP)
        ELSE 0

\* The position of the "::" that ends the term of a definition match.
\* match.find('::'): the first "::" of the line
DefinitionSep(line) == Min({q \in 1..Len(line) : line[q] = "::"})

\* ^(?P<idepth>\s+)(?=\S)
IndentLen(line) ==
    IF LeadingSpaces(line) < Len(line) THEN LeadingSpaces(line) ELSE 0

RuleLen(rule, line, pos) ==
    CASE rule \in DOMAIN rule_token ->
            TokenLen({rule_token[rule]}, rule_bang[rule], line, pos)
      [] rule = "inlinecode" -> SpanLen(STARTBLOCK, ENDBLOCK, line, pos)
      [] rule = "inlinecode2" -> SpanLen(INLINE_TOKEN, INLINE_TOKEN, line, pos)
      [] rule = "citation" ->
            IF pos = 1 /\ line[1] = ">" THEN CitationEnd(line, 1) ELSE 0
      [] rule = "htmlescape" -> TokenLen({"&", "<", ">"}, FALSE, line, pos)
      [] rule = "shref" -> TokenLen(ShrefLexemes, TRUE, line, pos)
      [] rule = "lhref" -> TokenLen(LhrefLexemes, TRUE, line, pos)
      [] rule = "macro" -> TokenLen(MacroLexemes, TRUE, line, pos)
      [] rule = "heading" -> IF pos = 1 THEN HeadingLen(line) ELSE 0
      [] rule = "list" -> IF pos = 1 THEN ListLen(line) ELSE 0
      [] rule = "definition" -> IF pos = 1 THEN DefinitionLen(line) ELSE 0
      [] rule = "indent" -> IF pos = 1 THEN IndentLen(line) ELSE 0
      [] rule = "last_table_cell" ->
            IF line[pos] = "||" /\ \A q \in (pos + 1)..Len(line) : IsSpace(line[q])
            THEN Len(line) - pos + 1 ELSE 0
      [] rule = "table_cell" -> TokenLen({"||"}, FALSE, line, pos)

\* WikiSystem.rules: the pre-rules, the rules of the syntax providers (none
\* is registered here) and the post-rules, in this order, as one alternation.
rules == pre_rules \o post_rules

NoMatch == [itype |-> "none", pos |-> 0, len |-> 0, line |-> <<>>]

\* The alternatives of the pattern that match at pos.
MatchingRules(line, pos) ==
    {i \in 1..Len(rules) : RuleLen(rules[i], line, pos) > 0}

FirstMatch(hits, line, pos) ==
    IF hits = {} THEN NoMatch
    ELSE [itype |-> rules[Min(hits)], pos |-> pos,
          len |-> RuleLen(rules[Min(hits)], line, pos), line |-> line]

\* The first alternative that matches at pos wins.
MatchAt(line, pos) == FirstMatch(MatchingRules(line, pos), line, pos)

\* ------------------------------------------------------- collaborators
\* The macros of the registered macro providers, the keys of MIME_MAP and
\* the link namespaces with a registered resolver (WikiSystem.link_resolvers).
MacroProviders == {"TitleIndex", "Image"}

MimeMap(name) == IF name = "python" THEN "text/x-python" ELSE NONE

LinkResolvers == {"wiki"}

\* config.get('intertrac', key): the aliases and the urls of the projects
IntertracConfig(key) ==
    CASE key = "T" -> "trac"
      [] key = "W" -> "wiki"
      [] key = "TRAC.url" -> "http://trac.example.org"
      [] key = "BOTH.url" -> "http://both.example.org"
      [] OTHER -> NONE

\* The entries of the InterWiki map: prefix -> (url, title), each of the two
\* a sequence of parts, a placeholder "$n" being a part of its own.
InterWikiEntries ==
    [MW |-> <<<<"http://mw.example.org/">>, <<"MeatBall">>>>,
     BOTH |-> <<<<"http://iw.example.org/", "$1">>, <<"Both">>>>]

Upper(ns) ==
    CASE ns = "mw" -> "MW" [] ns = "trac" -> "TRAC" [] ns = "t" -> "T"
      [] ns = "wiki" -> "WIKI" [] ns = "http" -> "HTTP"
      [] ns = "w" -> "W" [] ns = "both" -> "BOTH"
      [] ns = "mailto" -> "MAILTO" [] ns = "nosuch" -> "NOSUCH"
      [] OTHER -> ns

\* The Formatter._local base of same-site links
LocalBase == "http://trac.example.org"

\* ------------------------------------------------------ system_message
system_message(msg, body) ==
    <<"<div class=\"system-message\">", "<strong>", msg, "</strong>", "<pre>">>
    \o body \o <<"</pre>", "</div>", LINESEP>>

\* The items of a text of several lines, a line separator after each line.
RECURSIVE JoinLines(_)
JoinLines(lines) ==
    IF lines = <<>> THEN <<>>
    ELSE Head(lines) \o <<LINESEP>> \o JoinLines(Tail(lines))

\* ------------------------------------------------------- WikiProcessor
WikiProcessor(name) ==
    IF name \in {"html", "default", "comment"}
    THEN [name |-> name, processor |-> name, error |-> NONE]
    ELSE IF name \in MacroProviders
    THEN [name |-> name, processor |-> "macro", error |-> NONE]
    ELSE IF MimeMap(name) # NONE
    THEN [name |-> MimeMap(name), processor |-> "mimeview", error |-> NONE]
    ELSE [name |-> name, processor |-> "default",
          error |-> "No macro named [[" \o name \o "]] found"]

\* A variant that lets the text through.
comment_processor_shows(lines) == [ret |-> JoinLines(lines), raised |-> FALSE]

comment_processor(lines) == [ret |-> <<>>, raised |-> FALSE]

default_processor(lines) ==
    [ret |-> <<"<pre class=\"wiki\">">> \o EscapeAll(JoinLines(lines))
             \o <<"</pre>", LINESEP>>,
     raised |-> FALSE]

\* Markup(text).sanitize(): drops the script elements; raises
\* HTMLParseError, with the number of the line, on markup it cannot parse.
BadLines(lines) == {i \in 1..Len(lines) : \E q \in 1..Len(lines[i]) : lines[i][q] = "<bad"}

Sanitize(lines) ==
    [i \in 1..Len(lines) |-> SelectSeq(lines[i], LAMBDA x : x # "<script>")]

html_processor(lines) ==
    IF BadLines(lines) # {}
    THEN [ret |-> system_message("HTML parsing error: malformed start tag",
                                 strip(lines[Min(BadLines(lines))])),
          raised |-> FALSE]
    ELSE [ret |-> JoinLines(Sanitize(lines)), raised |-> FALSE]

\* macro_provider.render_macro(req, name, text): Image raises
\* Exception("No argument.") when it is given no content.
macro_processor(name, lines) ==
    IF name = "Image"
    THEN IF lines = <<>>
         THEN [ret |-> <<"No argument.">>, raised |-> TRUE]
         ELSE [ret |-> <<"<img>">>, raised |-> FALSE]
    ELSE [ret |-> <<"<ul>", "</ul>">>, raised |-> FALSE]

mimeview_processor(name, lines) ==
    [ret |-> <<"<div class=\"code\">", "<pre>">> \o EscapeAll(JoinLines(lines))
             \o <<"</pre>", "</div>">>,
     raised |-> FALSE]

run_processor(wp, lines) ==
    CASE wp.processor = "html" -> html_processor(lines)
      [] wp.processor = "default" -> default_processor(lines)
      [] wp.processor = "comment" -> comment_processor(lines)
      [] wp.processor = "macro" -> macro_processor(wp.name, lines)
      [] wp.processor = "mimeview" -> mimeview_processor(wp.name, lines)

\* WikiProcessor.process, with r the outcome of self.processor(req, text):
\* the text is made fit for the inside of a paragraph.
process_in_paragraph(r, in_paragraph) ==
    IF r.raised \/ ~in_paragraph \/ r.ret = <<>> THEN r
    ELSE IF r.ret[1] = "<div class=\"code\">"
    THEN [ret |-> <<"<span class=\"code-block\">">>
                  \o SubSeq(r.ret, 2, Len(r.ret) - 1) \o <<"</span>">>,
          raised |-> FALSE]
    ELSE IF r.ret[1] \in {"<div>", "<table>"}
    THEN [ret |-> <<"</p>">> \o r.ret \o <<"<p>">>, raised |-> FALSE]
    ELSE r

\* A variant that runs the processor whether or not the name was resolved.
process_despite_error(wp, lines, in_paragraph) ==
    process_in_paragraph(run_processor(wp, lines), in_paragraph)

\* WikiProcessor.process: [ret |-> the text, raised |-> an exception left it]
process(wp, lines, in_paragraph) ==
    IF wp.error # NONE
    THEN [ret |-> system_message("Error: Failed to load processor <code>"
                                 \o wp.name \o "</code>", <<wp.error>>),
          raised |-> FALSE]
    ELSE process_in_paragraph(run_processor(wp, lines), in_paragraph)

\* ------------------------------------------------------------- handlers
RECURSIVE re_sub_from(_, _, _, _)

Handled(f, items) == [f |-> f, ret |-> items]

inlinecode_formatter(f, m) ==
    LET t == MatchText(m)
    IN  Handled(f, <<"<tt>">> \o EscapeAll(SubSeq(t, 2, Len(t) - 1)) \o <<"</tt>">>)

htmlescape_formatter(f, m) == Handled(f, <<Escape(MatchText(m)[1])>>)

\* A url is a sequence of parts (strings) that concatenate to it.
RECURSIVE Concat(_)
Concat(parts) == IF parts = <<>> THEN "" ELSE Head(parts) \o Concat(Tail(parts))

\* Formatter.img_re: the url ends in an image extension
IsImage(url) == url # <<>> /\ url[Len(url)] \in {".gif", ".jpg", ".jpeg", ".png"}

\* title=title or None: the attribute is left out when the title is empty
TitleAttr(title) == IF title # "" THEN " title=\"" \o title \o "\"" ELSE ""

\* html.A(...) and html.IMG(...) as items: the start tag, the text, the end.
make_ext_link(f, url, label, title) ==
    IF IsImage(url) /\ f.flavor # "oneliner"
    THEN <<"<img src=\"" \o Concat(url) \o "\" alt=\""
           \o (IF title # "" THEN title ELSE label) \o "\" />">>
    ELSE IF url[1] # LocalBase
    THEN <<"<a class=\"ext-link\" href=\"" \o Concat(url) \o "\""
           \o TitleAttr(title) \o ">",
           "<span class=\"icon\">", label, "</span>", "</a>">>
    ELSE <<"<a href=\"" \o Concat(url) \o "\"" \o TitleAttr(title) \o ">",
           label, "</a>">>

make_relative_link(f, url, label) ==
    IF IsImage(url) /\ f.flavor # "oneliner"
    THEN <<"<img src=\"" \o Concat(url) \o "\" />">>
    ELSE IF url[1] = "//"
    THEN <<"<a class=\"ext-link\" href=\"" \o Concat(url) \o "\">", label, "</a>">>
    ELSE <<"<a href=\"" \o Concat(url) \o "\">", label, "</a>">>

\* ':'.join(parts)
RECURSIVE JoinColon(_)
JoinColon(parts) ==
    IF parts = <<>> THEN ""
    ELSE IF Len(parts) = 1 THEN parts[1]
    ELSE parts[1] \o ":" \o JoinColon(Tail(parts))

\* A link target is the sequence of its parts around each ":", with "//"
\* as a part of its own in front of a target that begins with it.
TargetText(target) ==
    IF target[1] = "//" THEN "//" \o JoinColon(Tail(target))
    ELSE JoinColon(target)

\* target.split(':')
SplitColon(target) ==
    IF target[1] = "//" /\ Len(target) > 1
    THEN <<"//" \o target[2]>> \o SubSeq(target, 3, Len(target))
    ELSE target

\* -------------------------------------------------------- InterWikiMap
\* InterWikiMap._argspec_re, \$\d: the placeholders, "$n" at position n + 1
ArgSpecs == <<"$0", "$1", "$2", "$3", "$4", "$5", "$6", "$7", "$8", "$9">>

IsArgSpec(x) == \E i \in 1..Len(ArgSpecs) : ArgSpecs[i] = x

\* int(match.group()[1:])
ArgNum(x) == (CHOOSE i \in 1..Len(ArgSpecs) : ArgSpecs[i] = x) - 1

\* A variant of setarg that counts the arguments from 0.
setarg_from_zero(x, args) ==
    IF ArgNum(x) < Len(args) THEN args[ArgNum(x) + 1] ELSE ""

\* InterWikiMap._expand.setarg
setarg(x, args) ==
    IF 0 < ArgNum(x) /\ ArgNum(x) <= Len(args) THEN args[ArgNum(x)] ELSE ""

\* InterWikiMap._expand: re.sub(_argspec_re, setarg, txt)
expand(txt, args) ==
    [i \in 1..Len(txt) |-> IF IsArgSpec(txt[i]) THEN setarg(txt[i], args)
                           ELSE txt[i]]

\* expanded == txt and txt + args[0] or expanded: the two texts are compared
\* as strings.
expand_or_append_of(txt, args, expanded) ==
    IF Concat(expanded) = Concat(txt) THEN Append(txt, args[1]) ELSE expanded

\* InterWikiMap._expand_or_append
expand_or_append(txt, args) ==
    IF args = <<>> THEN txt
    ELSE expand_or_append_of(txt, args, expand(txt, args))

\* the title of InterWikiMap.url, from the expansion of the title
interwiki_title(title, target, expanded_title) ==
    IF Concat(expanded_title) = Concat(title)
    THEN TargetText(target) \o " in " \o Concat(title)
    ELSE Concat(expanded_title)

\* InterWikiMap.url, for the entry (url, title) of the namespace
interwiki_url(entry, target) ==
    [url |-> expand_or_append(entry[1], SplitColon(target)),
     title |-> interwiki_title(entry[2], target,
                               expand(entry[2], SplitColon(target)))]

\* no link: None
make_intertrac_link(f, ns, target, label) ==
    LET url == IntertracConfig(Upper(ns) \o ".url")
    IN  IF url # NONE
        THEN make_ext_link(f,
                 IF Len(target) > 1
                 THEN <<url, "/", target[1], "/", JoinColon(Tail(target))>>
                 ELSE <<url, "/search?q=", target[1]>>,
                 label, TargetText(target) \o " in Trac project " \o ns)
        ELSE <<>>

make_interwiki_link(f, ns, target, label) ==
    IF Upper(ns) \in DOMAIN InterWikiEntries
    THEN make_ext_link(f, interwiki_url(InterWikiEntries[Upper(ns)], target).url,
                       label,
                       interwiki_url(InterWikiEntries[Upper(ns)], target).title)
    ELSE <<>>

\* The first of the links that is one, else the text of the match.
first_link(intertrac, interwiki, match) ==
    IF intertrac # <<>> THEN intertrac
    ELSE IF interwiki # <<>> THEN interwiki
    ELSE match

\* A variant that looks at the target before the registered resolvers.
make_resolved_link_external_first(f, ns, target, match, label) ==
    IF target[1] = "//" \/ ns = "mailto"
    THEN make_ext_link(f, <<ns \o ":">> \o target, label, "")
    ELSE IF ns \in LinkResolvers
    THEN <<"<a class=\"wiki\" href=\"/wiki/" \o TargetText(target) \o "\">",
           Escape(label), "</a>">>
    ELSE first_link(make_intertrac_link(f, ns, target, label),
                    make_interwiki_link(f, ns, target, label), match)

\* _make_link, with ns the namespace after the intertrac alias is resolved
make_resolved_link(f, ns, target, match, label) ==
    IF ns \in LinkResolvers
    THEN <<"<a class=\"wiki\" href=\"/wiki/" \o TargetText(target) \o "\">",
           Escape(label), "</a>">>
    ELSE IF target[1] = "//" \/ ns = "mailto"
    THEN make_ext_link(f, <<ns \o ":">> \o target, label, "")
    ELSE first_link(make_intertrac_link(f, ns, target, label),
                    make_interwiki_link(f, ns, target, label), match)

make_link(f, ns, target, match, label) ==
    make_resolved_link(f,
        IF IntertracConfig(Upper(ns)) # NONE THEN IntertracConfig(Upper(ns))
        ELSE ns,
        target, match, label)

shref_link(f, x, match) ==
    Handled(f, make_link(f, LinkNs(x), LinkTarget(x), match, x))

shref_formatter(f, m) == shref_link(f, MatchText(m)[1], MatchText(m))

\* The label of a [target label] link: the label given, else the target.
lhref_label(x) ==
    IF LinkLabel(x) # NONE THEN LinkLabel(x)
    ELSE IF LinkTarget(x) # <<>>
    THEN IF LinkTarget(x)[1] = "//"
         THEN LinkNs(x) \o ":" \o Concat(LinkTarget(x))
         ELSE TargetText(LinkTarget(x))
    ELSE LinkNs(x)

lhref_link(f, x, match, label) ==
    IF LinkRel(x) # <<>>
    THEN Handled(f, make_relative_link(f, LinkRel(x),
                        IF label # NONE THEN label ELSE Concat(LinkRel(x))))
    ELSE Handled(f, make_link(f, LinkNs(x), LinkTarget(x), match, label))

lhref_formatter(f, m) ==
    lhref_link(f, MatchText(m)[1], MatchText(m), lhref_label(MatchText(m)[1]))

\* _macro_formatter, with r the outcome of macro.process(req, args, True)
macro_result(f, name, r) ==
    IF r.raised
    THEN Handled(f, system_message("Error: Macro " \o name \o "(None) failed",
                                   r.ret))
    ELSE Handled(f, r.ret)

macro_named(f, name, args) ==
    IF name \in {"br", "BR"} THEN Handled(f, <<"<br />">>)
    ELSE macro_result(f, name, process(WikiProcessor(name), args, TRUE))

macro_formatter(f, m) ==
    macro_named(f, MacroName(MatchText(m)[1]), MacroArgs(MatchText(m)[1]))

\* ------------------------------------------------- OneLinerFormatter
\* The lexemes "#!name" of a processor line and the name each declares.
ProcessorLexemes ==
    {"#!comment", "#!html", "#!default", "#!TitleIndex", "#!Image",
     "#!python", "#!NoSuch"}

ProcessorName(x) ==
    CASE x = "#!comment" -> "comment" [] x = "#!html" -> "html"
      [] x = "#!default" -> "default" [] x = "#!TitleIndex" -> "TitleIndex"
      [] x = "#!Image" -> "Image" [] x = "#!python" -> "python"
      [] x = "#!NoSuch" -> "NoSuch"

\* text.splitlines() of a text held as one sequence of lexemes
RECURSIVE SplitLines(_, _)
SplitLines(items, cur) ==
    IF items = <<>> THEN (IF cur = <<>> THEN <<>> ELSE <<cur>>)
    ELSE IF Head(items) = LINESEP THEN <<cur>> \o SplitLines(Tail(items), <<>>)
    ELSE SplitLines(Tail(items), Append(cur, Head(items)))

\* OneLinerFormatter.format, the loop that simplifies the code blocks:
\* st = [n |-> in_code_block, processor |-> ..., buf |-> the lines printed]
\* One line of the loop without the test of the counter at an end marker.
oneliner_line_unguarded(st, line) ==
    IF strip(line) = <<STARTBLOCK>>
    THEN [st EXCEPT !.n = @ + 1]
    ELSE IF strip(line) = <<ENDBLOCK>>
    THEN IF st.n - 1 = 0
         THEN [n |-> 0, processor |-> NONE,
               buf |-> IF st.processor # "comment"
                       THEN Append(st.buf, <<SP, BANG, "[...]">>)
                       ELSE st.buf]
         ELSE [st EXCEPT !.n = @ - 1]
    ELSE IF st.n # 0
    THEN IF st.processor = NONE /\ line # <<>>
            /\ line[1] \in ProcessorLexemes
         THEN [st EXCEPT !.processor = ProcessorName(line[1])]
         ELSE st
    ELSE [st EXCEPT !.buf = Append(@, line)]

\* One line of the loop.
oneliner_line(st, line) ==
    IF strip(line) = <<STARTBLOCK>>
    THEN [st EXCEPT !.n = @ + 1]
    ELSE IF strip(line) = <<ENDBLOCK>>
    THEN IF st.n # 0
         THEN IF st.n - 1 = 0
              THEN [n |-> 0, processor |-> NONE,
                    buf |-> IF st.processor # "comment"
                            THEN Append(st.buf, <<SP, BANG, "[...]">>)
                            ELSE st.buf]
              ELSE [st EXCEPT !.n = @ - 1]
         ELSE st
    ELSE IF st.n # 0
    THEN IF st.processor = NONE /\ line # <<>>
            /\ line[1] \in ProcessorLexemes
         THEN [st EXCEPT !.processor = ProcessorName(line[1])]
         ELSE st
    ELSE [st EXCEPT !.buf = Append(@, line)]

RECURSIVE oneliner_simplify(_, _)
oneliner_simplify(lines, st) ==
    IF lines = <<>> THEN st
    ELSE oneliner_simplify(Tail(lines), oneliner_line(st, Head(lines)))

\* result.replace('[...]', '[&hellip;]') and the "..." at the end
Hellip(items) ==
    LET r == [i \in 1..Len(items) |->
                 IF items[i] = "[...]" THEN "[&hellip;]" ELSE items[i]]
    IN  IF r # <<>> /\ r[Len(r)] = "..."
        THEN SubSeq(r, 1, Len(r) - 1) \o <<"&hellip;">>
        ELSE r

\* OneLinerFormatter.format after the substitution r of the handlers:
\* the open toggles are closed and an unfinished code block is marked.
oneliner_result(r, in_code_block) ==
    Hellip(r.ret) \o close_tag(r.f, NONE).ret
    \o (IF in_code_block > 0 THEN <<"[&hellip;]">> ELSE <<>>)

\* os.linesep.join(buf): no line separator after the last line
JoinedBuf(buf) == SubSeq(JoinLines(buf), 1, Len(JoinLines(buf)) - 1)

\* OneLinerFormatter.format after the loop that simplifies the code blocks
oneliner_format(st) ==
    oneliner_result(re_sub_from([Formatter_init EXCEPT !.flavor = "oneliner"],
                                JoinedBuf(st.buf), 1, <<>>),
                    st.n)

\* wiki_to_oneliner(wikitext, ...) with shorten left False: the text written
\* by OneLinerFormatter(env).format(wikitext, out); wikitext is a sequence of
\* lexemes, LINESEP between its lines.
wiki_to_oneliner(wikitext) ==
    IF wikitext = <<>> THEN <<>>
    ELSE oneliner_format(
             oneliner_simplify(SplitLines(strip(wikitext), <<>>),
                               [n |-> 0, processor |-> NONE, buf |-> <<>>]))

\* ------------------------------------------------------------- headings
\* The items that are HTML tags: re.sub(r'</?\w+(?: .*?)?>', '', text)
IsTag(x) ==
    x \in {"<strong>", "</strong>", "<i>", "</i>", "<span class=\"underline\">",
           "</span>", "<del>", "</del>", "<sub>", "</sub>", "<sup>", "</sup>",
           "<tt>", "</tt>", "</a>", "<span class=\"icon\">",
           "<a class=\"wiki\" href=\"/wiki/Page\">",
           "<a class=\"ext-link\" href=\"http://x.org\">",
           "<a class=\"ext-link\" href=\"mailto:me\">",
           "<a href=\"http://trac.example.org/ticket/1\" title=\"ticket:1 in Trac project trac\">",
           "<a class=\"ext-link\" href=\"http://mw.example.org/a\" title=\"a:b in MeatBall\">",
           "<a href=\"/rel\">", "<a href=\"...\">"}

\* What _anchor_re, [^\w\d\.-:]+, leaves of an item of rendered text.
AnchorPart(x) ==
    CASE x \in {"foo", "foo1", "bar", "1", "item1", "item2", "nested", "text",
                "term", "label", "Page", "x.org", "...", ".", "A", "B", "C",
                "D"} -> x
      [] x = "&amp;" -> "amp"
      [] x = "&lt;" -> "lt"
      [] x = "&gt;" -> "gt"
      [] x = "[&hellip;]" -> "hellip"
      [] x = "&hellip;" -> "hellip"
      [] x = "[[TitleIndex]]" -> "TitleIndex"
      [] x = "[[Image]]" -> "Image"
      [] x = "[[NoSuchMacro]]" -> "NoSuchMacro"
      [] x = "[[html(...)]]" -> "html..."
      [] x = "nosuch:x" -> "nosuch:x"
      [] x = "[nosuch:x]" -> "nosuch:x"
      [] x \in ListMarkers \ {"-", "*"} -> x
      [] x = "-" -> "-"
      [] OTHER -> ""

\* anchor[0].isalpha() of an anchor that begins with the item x
AlphaStart(x) ==
    x \notin {"1", "x.org", "...", ".", "0.", "1.", "3.", "-"}

RECURSIVE AnchorOf(_)
AnchorOf(items) ==
    IF items = <<>> THEN ""
    ELSE (IF IsTag(Head(items)) THEN "" ELSE AnchorPart(Head(items)))
         \o AnchorOf(Tail(items))

\* The anchor starts with a letter.
AnchorIsAlpha(items) ==
    LET named == SelectSeq(items, LAMBDA x : ~IsTag(x) /\ AnchorPart(x) # "")
    IN  named # <<>> /\ AlphaStart(AnchorPart(named[1]))

\* The loop that appends 1, 2, ... until the anchor is unused.
RECURSIVE UnusedAnchor(_, _, _)
UnusedAnchor(anchors, anchor_base, i) ==
    IF \E k \in 1..Len(anchors) : anchors[k] = anchor_base \o ToString(i)
    THEN UnusedAnchor(anchors, anchor_base, i + 1)
    ELSE anchor_base \o ToString(i)

\* A variant that appends 1 to a used anchor without looking further.
new_anchor_first_suffix(anchors, anchor_base) ==
    IF \E k \in 1..Len(anchors) : anchors[k] = anchor_base
    THEN anchor_base \o "1"
    ELSE anchor_base

new_anchor(anchors, anchor_base) ==
    IF \E k \in 1..Len(anchors) : anchors[k] = anchor_base
    THEN UnusedAnchor(anchors, anchor_base, 1)
    ELSE anchor_base

\* The text between the "=" runs of a heading match: depth + 1 characters
\* are cut from each end of the stripped match.
HeadingText(m) ==
    LET t == strip(MatchText(m))
        depth == IF HeadingDepth(m.line) < 5 THEN HeadingDepth(m.line) ELSE 5
    IN  SubSeq(t, depth + 2, Len(t) - depth - 1)

\* The anchor of the rendered text txt of a heading, before it is made
\* unique: an ID must start with a letter.
anchor_base_of(txt) ==
    IF AnchorIsAlpha(txt) THEN AnchorOf(txt) ELSE "a" \o AnchorOf(txt)

heading_anchor(anchors, txt) == new_anchor(anchors, anchor_base_of(txt))

\* self._anchors.append(anchor); self.out.write('<h%d id="%s">%s</h%d>' ...)
heading_write(f1, depth, txt, anchor) ==
    Handled(write([f1 EXCEPT !.anchors = Append(@, anchor)],
                  <<"<h" \o ToString(depth) \o " id=\"" \o anchor \o "\">">>
                  \o txt \o <<"</h" \o ToString(depth) \o ">">>),
            <<>>)

\* _heading_formatter after the five closes at its start
heading_closed(f1, depth, txt) ==
    heading_write(f1, depth, txt, heading_anchor(f1.anchors, txt))

\* A variant that takes the length of the run of "=" as the level.
heading_formatter_uncapped(f, m) ==
    heading_closed(
        close_def_list(close_list(close_indentation(
            close_paragraph(close_table(f))))),
        HeadingDepth(m.line),
        wiki_to_oneliner(HeadingText(m)))

heading_formatter(f, m) ==
    heading_closed(
        close_def_list(close_list(close_indentation(
            close_paragraph(close_table(f))))),
        IF HeadingDepth(m.line) < 5 THEN HeadingDepth(m.line) ELSE 5,
        wiki_to_oneliner(HeadingText(m)))

\* ---------------------------------------------------------------- lists
list_formatter(f, m) ==
    LET ldepth == LeadingSpaces(m.line)
        marker == m.line[ldepth + 1]
        listid == ListId(marker)
        ul == listid \in {"-", "*"}
        class == CASE ul -> NONE
                   [] listid = "0" -> "arabiczero"
                   [] listid = "1" -> NONE
                   [] listid = "i" -> "lowerroman"
                   [] listid = "I" -> "upperroman"
                   [] listid \in {"3"} -> NONE
                   [] listid \in {"a"} -> "loweralpha"
                   [] listid \in {"A"} -> "upperalpha"
        start == IF ~ul /\ listid \in {"3"} THEN listid ELSE NONE
    IN  Handled(set_list_depth([f EXCEPT !.in_list_item = TRUE], ldepth,
                               IF ul THEN "ul" ELSE "ol", class, start),
                <<>>)

\* ----------------------------------------------------- definition lists
definition_formatter(f, m) ==
    LET definition == SubSeq(m.line, 1, DefinitionSep(m.line) - 1)
    IN  Handled([f EXCEPT !.in_def_list = 1],
                (IF f.in_def_list # 0 THEN <<"</dd>">> ELSE <<"<dl>">>)
                \o <<"<dt>">> \o wiki_to_oneliner(definition) \o <<"</dt>", "<dd>">>)

\* ---------------------------------------------------------- blockquotes
\* The loop over the list stack, bottom first: a list at a depth less than
\* idepth makes the line a continuation at idepth.
indent_formatter(f, m) ==
    LET idepth == LeadingSpaces(m.line)
        n == Len(f.list_stack)
        top == f.list_stack[n]
        quoted == IF f.in_def_list = 0 THEN set_quote_depth(f, idepth, FALSE) ELSE f
    IN  IF n > 0 /\ idepth < top[2]
           /\ \E i \in 1..n : idepth > f.list_stack[i][2]
        THEN Handled(set_list_depth([f EXCEPT !.in_list_item = TRUE], idepth,
                                    NONE, NONE, NONE), <<>>)
        ELSE IF n > 0 /\ idepth >= top[2]
                /\ idepth <= top[2] + (IF top[1] = "ol" THEN 3 ELSE 2)
        THEN Handled([f EXCEPT !.in_list_item = TRUE], <<>>)
        ELSE Handled(quoted, <<>>)

citation_formatter(f, m) ==
    LET cdepth == Len(SelectSeq(MatchText(m), LAMBDA x : x # SP))
    IN  Handled(set_quote_depth(f, cdepth, TRUE), <<>>)

\* --------------------------------------------------------------- tables
\* A variant that leaves an open paragraph as it is.
open_table_keeping_paragraph(f) ==
    IF f.in_table = 0
    THEN [write(close_def_list(close_list(f)),
                <<"<table class=\"wiki\">", LINESEP>>)
             EXCEPT !.in_table = 1]
    ELSE f

open_table(f) ==
    IF f.in_table = 0
    THEN [write(close_def_list(close_list(close_paragraph(f))),
                <<"<table class=\"wiki\">", LINESEP>>)
             EXCEPT !.in_table = 1]
    ELSE f

open_table_row(f) ==
    IF f.in_table_row = 0
    THEN write([open_table(f) EXCEPT !.in_table_row = 1], <<"<tr>">>)
    ELSE f

last_table_cell_formatter(f, m) == Handled(f, <<>>)

\* _table_cell_formatter after open_table() and open_table_row()
table_cell_opened(f1) ==
    IF f1.in_table_cell # 0
    THEN Handled(f1, <<"</td>", "<td>">>)
    ELSE Handled([f1 EXCEPT !.in_table_cell = 1], <<"<td>">>)

table_cell_formatter(f, m) == table_cell_opened(open_table_row(open_table(f)))

\* ------------------------------------------------------------ dispatch
\* OneLinerFormatter overrides
oneliner_formatter(f, m) ==
    CASE m.itype \in {"list", "indent", "table_cell", "last_table_cell"} ->
            Handled(f, MatchText(m))
      [] m.itype \in {"citation", "heading", "definition"} ->
            Handled(f, EscapeAll(MatchText(m)))
      [] m.itype = "macro" ->
            LET name == MacroName(MatchText(m)[1])
            IN  IF name \in {"br", "BR"} THEN Handled(f, <<SP>>)
                ELSE IF name = "comment" THEN Handled(f, <<>>)
                ELSE Handled(f, <<IF MacroArgs(MatchText(m)[1]) # <<>>
                                  THEN "[[" \o name \o "(...)]]"
                                  ELSE "[[" \o name \o "]]">>)

\* ---------------------------------------------------- OutlineFormatter
\* The items that are link tags: re.sub(r'</?a(?: .*?)?>', '', text)
IsLinkTag(x) ==
    x \in {"</a>", "<a class=\"wiki\" href=\"/wiki/Page\">",
           "<a class=\"ext-link\" href=\"http://x.org\">",
           "<a class=\"ext-link\" href=\"mailto:me\">",
           "<a href=\"/rel\">", "<a href=\"...\">"}

\* '<a href="#%s">%s</a>' % (anchor, text), one item
OutlineLink(anchor, txt) ==
    "<a href=\"#" \o anchor \o "\">"
    \o Concat(SelectSeq(txt, LAMBDA x : ~IsLinkTag(x))) \o "</a>"

\* OutlineFormatter._heading_formatter after the call of the one of
\* Formatter, which left f1
outline_heading(f1, depth, heading) ==
    Handled([f1 EXCEPT !.outline =
                Append(@, <<depth, OutlineLink(f1.anchors[Len(f1.anchors)],
                                               wiki_to_oneliner(heading))>>)],
            <<>>)

\* OutlineFormatter overrides
outline_formatter(f, m) ==
    CASE m.itype = "citation" -> Handled(f, EscapeAll(MatchText(m)))
      [] m.itype = "macro" -> Handled(f, MatchText(m))
      [] m.itype = "heading" ->
            outline_heading(heading_formatter(f, m).f,
                            IF HeadingDepth(m.line) < 5 THEN HeadingDepth(m.line)
                            ELSE 5,
                            HeadingText(m))

\* s * n
RECURSIVE Times(_, _)
Times(items, n) == IF n <= 0 THEN <<>> ELSE items \o Times(items, n - 1)

\* What the loop of OutlineFormatter.format writes for one entry and the
\* entries after it, and the closing after the loop; a variant in which an
\* entry outside the window sets the current depth.
RECURSIVE outline_entries_tracking_skipped(_, _, _, _)
outline_entries_tracking_skipped(outline, curr_depth, min_depth, max_depth) ==
    IF outline = <<>> THEN Times(<<"</li>", "</ol>">>, curr_depth)
    ELSE IF Head(outline)[1] < min_depth \/ Head(outline)[1] > max_depth
    THEN outline_entries_tracking_skipped(Tail(outline), Head(outline)[1],
                                          min_depth, max_depth)
    ELSE (IF Head(outline)[1] < curr_depth
          THEN Times(<<"</li>", "</ol>", "<li>">>, curr_depth - Head(outline)[1])
          ELSE IF Head(outline)[1] > curr_depth
          THEN Times(<<"<ol>", "<li>">>, Head(outline)[1] - curr_depth)
          ELSE <<"</li>", "<li>", LINESEP>>)
         \o <<Head(outline)[2]>>
         \o outline_entries_tracking_skipped(Tail(outline), Head(outline)[1],
                                             min_depth, max_depth)

\* A variant that closes a level where the depth increases and opens one
\* where it decreases.
RECURSIVE outline_entries_inverted(_, _, _, _)
outline_entries_inverted(outline, curr_depth, min_depth, max_depth) ==
    IF outline = <<>> THEN Times(<<"</li>", "</ol>">>, curr_depth)
    ELSE IF Head(outline)[1] < min_depth \/ Head(outline)[1] > max_depth
    THEN outline_entries_inverted(Tail(outline), curr_depth, min_depth, max_depth)
    ELSE (IF Head(outline)[1] > curr_depth
          THEN Times(<<"</li>", "</ol>", "<li>">>, Head(outline)[1] - curr_depth)
          ELSE IF Head(outline)[1] < curr_depth
          THEN Times(<<"<ol>", "<li>">>, curr_depth - Head(outline)[1])
          ELSE <<"</li>", "<li>", LINESEP>>)
         \o <<Head(outline)[2]>>
         \o outline_entries_inverted(Tail(outline), Head(outline)[1],
                                     min_depth, max_depth)

\* The loop of OutlineFormatter.format over self.outline and the closing
\* written after it.
RECURSIVE outline_entries(_, _, _, _)
outline_entries(outline, curr_depth, min_depth, max_depth) ==
    IF outline = <<>> THEN Times(<<"</li>", "</ol>">>, curr_depth)
    ELSE IF Head(outline)[1] < min_depth \/ Head(outline)[1] > max_depth
    THEN outline_entries(Tail(outline), curr_depth, min_depth, max_depth)
    ELSE (IF Head(outline)[1] < curr_depth
          THEN Times(<<"</li>", "</ol>", "<li>">>, curr_depth - Head(outline)[1])
          ELSE IF Head(outline)[1] > curr_depth
          THEN Times(<<"<ol>", "<li>">>, Head(outline)[1] - curr_depth)
          ELSE <<"</li>", "<li>", LINESEP>>)
         \o <<Head(outline)[2]>>
         \o outline_entries(Tail(outline), Head(outline)[1], min_depth, max_depth)

\* OutlineFormatter.format after the swap of the bounds given in reverse
outline_clamped(outline, max_depth, min_depth) ==
    outline_entries(outline,
                    (IF min_depth > 1 THEN min_depth ELSE 1) - 1,
                    IF min_depth > 1 THEN min_depth ELSE 1,
                    IF max_depth < 6 THEN max_depth ELSE 6)

\* OutlineFormatter.format after Formatter.format(self, text, NullOut()):
\* what is written to out
outline_render(outline, max_depth, min_depth) ==
    IF min_depth > max_depth
    THEN outline_clamped(outline, min_depth, max_depth)
    ELSE outline_clamped(outline, max_depth, min_depth)

\* A variant that keeps a flag in place of the nesting counter.
outline_handle_code_block_flag(f, line) ==
    [f |-> IF strip(line) = <<STARTBLOCK>>
           THEN [f EXCEPT !.in_code_block = 1]
           ELSE IF strip(line) = <<ENDBLOCK>>
           THEN [f EXCEPT !.in_code_block = 0]
           ELSE f,
     raised |-> FALSE]

\* OutlineFormatter.handle_code_block
outline_handle_code_block(f, line) ==
    [f |-> IF strip(line) = <<STARTBLOCK>>
           THEN [f EXCEPT !.in_code_block = @ + 1]
           ELSE IF strip(line) = <<ENDBLOCK>>
           THEN [f EXCEPT !.in_code_block = @ - 1]
           ELSE f,
     raised |-> FALSE]

\* getattr(self, '_' + itype + '_formatter')(match, fullmatch)
formatter(f, m) ==
    CASE f.flavor = "outline" /\ m.itype \in {"citation", "macro", "heading"} ->
            outline_formatter(f, m)
      [] f.flavor = "oneliner"
         /\ m.itype \in {"list", "indent", "table_cell", "last_table_cell",
                         "citation", "heading", "definition", "macro"} ->
            oneliner_formatter(f, m)
      [] m.itype = "bolditalic" -> bolditalic_formatter(f, m)
      [] m.itype = "bold" -> bold_formatter(f, m)
      [] m.itype = "italic" -> italic_formatter(f, m)
      [] m.itype = "underline" -> underline_formatter(f, m)
      [] m.itype = "strike" -> strike_formatter(f, m)
      [] m.itype = "subscript" -> subscript_formatter(f, m)
      [] m.itype = "superscript" -> superscript_formatter(f, m)
      [] m.itype \in {"inlinecode", "inlinecode2"} -> inlinecode_formatter(f, m)
      [] m.itype = "citation" -> citation_formatter(f, m)
      [] m.itype = "htmlescape" -> htmlescape_formatter(f, m)
      [] m.itype = "shref" -> shref_formatter(f, m)
      [] m.itype = "lhref" -> lhref_formatter(f, m)
      [] m.itype = "macro" -> macro_formatter(f, m)
      [] m.itype = "heading" -> heading_formatter(f, m)
      [] m.itype = "list" -> list_formatter(f, m)
      [] m.itype = "definition" -> definition_formatter(f, m)
      [] m.itype = "indent" -> indent_formatter(f, m)
      [] m.itype = "last_table_cell" -> last_table_cell_formatter(f, m)
      [] m.itype = "table_cell" -> table_cell_formatter(f, m)

\* The escape character "!" in front of the match suppresses the handler.
replace(f, m) ==
    IF MatchText(m)[1] = BANG
    THEN Handled(f, Tail(MatchText(m)))
    ELSE formatter(f, m)

\* re.sub(self.wiki.rules, self.replace, line), from position pos on, with
\* acc the text substituted so far; re_sub_match continues after the match
\* m at pos, which the handler replaced as r tells.
re_sub_match(r, line, pos, acc, m) ==
    re_sub_from(r.f, line, pos + m.len, acc \o r.ret)

re_sub_at(f, line, pos, acc, m) ==
    IF m.itype = "none"
    THEN re_sub_from(f, line, pos + 1, Append(acc, line[pos]))
    ELSE re_sub_match(replace(f, m), line, pos, acc, m)

re_sub_from(f, line, pos, acc) ==
    IF pos > Len(line) THEN [f |-> f, ret |-> acc]
    ELSE re_sub_at(f, line, pos, acc, MatchAt(line, pos))

re_sub(f, line) == re_sub_from(f, line, 1, <<>>)

\* ---------------------------------------------------------- code blocks
add_code_text(f, line) == [f EXCEPT !.code_text = Append(@, line)]

FirstProcessor(line) ==
    line[Min({q \in 1..Len(line) : line[q] \in ProcessorLexemes})]

\* handle_code_block on the line that opens a block, the counter raised
code_block_start(f1, line) ==
    IF f1.in_code_block = 1
    THEN [f |-> [f1 EXCEPT !.code_processor = NoProcessor, !.code_text = <<>>],
          raised |-> FALSE]
    ELSE [f |-> [add_code_text(f1, line) EXCEPT !.code_processor =
                    IF @ = NoProcessor THEN WikiProcessor("default") ELSE @],
          raised |-> FALSE]

\* self.out.write(self.code_processor.process(self.req, self.code_text)):
\* r is the outcome of process; nothing is written when it raised.
code_block_written(f2, r) ==
    IF r.raised THEN [f |-> f2, raised |-> TRUE]
    ELSE [f |-> write(f2, r.ret), raised |-> FALSE]

code_block_process(f2) ==
    code_block_written(f2, process(f2.code_processor, f2.code_text, FALSE))

\* handle_code_block on the line that closes a block, the counter lowered
code_block_end(f1, line) ==
    IF f1.in_code_block = 0 /\ f1.code_processor # NoProcessor
    THEN code_block_process(close_paragraph(close_table(f1)))
    ELSE [f |-> add_code_text(f1, line), raised |-> FALSE]

\* handle_code_block on a line within a block
code_block_line(f, line) ==
    IF f.code_processor = NoProcessor
    THEN IF \E q \in 1..Len(line) : line[q] \in ProcessorLexemes
         THEN [f |-> [f EXCEPT !.code_processor =
                         WikiProcessor(ProcessorName(FirstProcessor(line)))],
               raised |-> FALSE]
         ELSE [f |-> [add_code_text(f, line) EXCEPT !.code_processor =
                         WikiProcessor("default")],
               raised |-> FALSE]
    ELSE [f |-> add_code_text(f, line), raised |-> FALSE]

\* Formatter.handle_code_block:
\* [f |-> the Formatter afterwards, raised |-> an exception left the call]
handle_code_block(f, line) ==
    IF f.flavor = "outline" THEN outline_handle_code_block(f, line)
    ELSE IF strip(line) = <<STARTBLOCK>>
    THEN code_block_start([f EXCEPT !.in_code_block = @ + 1], line)
    ELSE IF strip(line) = <<ENDBLOCK>>
    THEN code_block_end([f EXCEPT !.in_code_block = @ - 1], line)
    ELSE code_block_line(f, line)

RECURSIVE close_code_blocks(_)
\* the while loop goes on unless handle_code_block raised
close_code_blocks_on(r) == IF r.raised THEN r ELSE close_code_blocks(r.f)

close_code_blocks(f) ==
    IF f.in_code_block > 0
    THEN close_code_blocks_on(handle_code_block(f, <<ENDBLOCK>>))
    ELSE [f |-> f, raised |-> FALSE]

\* --------------------------------------------------------- format()
\* Formatter.format, the assignments before the loop
format_reset(f) ==
    [f EXCEPT !.out = <<>>, !.open_tags = <<>>, !.list_stack = <<>>,
              !.quote_stack = <<>>, !.tabstops = <<>>, !.in_code_block = 0,
              !.in_table = 0, !.in_def_list = 0, !.in_table_row = 0,
              !.in_table_cell = 0, !.paragraph_open = 0]

\* A variant of the test that looks at the start marker only.
IsStartMarker(f, line) == strip(line) = <<STARTBLOCK>>

IsCodeLine(f, line) == f.in_code_block # 0 \/ strip(line) = <<STARTBLOCK>>

\* line[0:4] == '----'
IsRuleLine(line) == line # <<>> /\ line[1] = "----"

\* if not self.in_list_item: self.close_list()
close_list_unless_item(f) == IF ~f.in_list_item THEN close_list(f) ELSE f

\* if not self.in_quote: self.close_indentation()
close_indentation_unless_quote(f) ==
    IF ~f.in_quote THEN close_indentation(f) ELSE f

\* if self.in_def_list and not line.startswith(' '): self.close_def_list()
close_def_list_unless_indented(f, line) ==
    IF f.in_def_list # 0 /\ line[1] # SP THEN close_def_list(f) ELSE f

\* if self.in_table and line.strip()[0:2] != '||': self.close_table()
close_table_unless_row(f, line) ==
    IF f.in_table # 0 /\ (strip(line) = <<>> \/ strip(line)[1] # "||")
    THEN close_table(f) ELSE f

open_paragraph_for(f, res) ==
    IF res # <<>> /\ ~f.in_list_item /\ f.in_def_list = 0 /\ f.in_table = 0
    THEN open_paragraph(f) ELSE f

\* A variant of the end of the body that leaves the table row open.
markup_line_row_left_open(r, line) ==
    [f |-> write(
              open_paragraph_for(
                  close_table_unless_row(
                      close_def_list_unless_indented(
                          close_indentation_unless_quote(
                              close_list_unless_item(r.f)),
                          line),
                      line),
                  r.ret),
              r.ret \o <<LINESEP>>),
     raised |-> FALSE, result |-> r.ret]

\* The body of the loop from the substitution r of the handlers on.
markup_line_substituted(r, line) ==
    [f |-> close_table_row(write(
              open_paragraph_for(
                  close_table_unless_row(
                      close_def_list_unless_indented(
                          close_indentation_unless_quote(
                              close_list_unless_item(r.f)),
                          line),
                      line),
                  r.ret),
              r.ret \o <<LINESEP>>)),
     raised |-> FALSE, result |-> r.ret]

\* The body of the loop from the tab expansion on.
markup_line_expanded(f, line) ==
    markup_line_substituted(
        re_sub([f EXCEPT !.tabstops = IF line[1] # SP THEN <<>> ELSE @,
                         !.in_list_item = FALSE, !.in_quote = FALSE],
               line),
        line)

\* The body of the loop for a line that is neither in a code block, nor a
\* horizontal rule, nor empty.
format_markup_line(f, line) == markup_line_expanded(f, ExpandTabs(line))

\* The body of the loop for a line in or at the start of a code block.
code_line_result(r) == [f |-> r.f, raised |-> r.raised, result |-> <<>>]

format_code_line(f, line) == code_line_result(handle_code_block(f, line))

\* A variant of the body for a horizontal rule that closes the definition
\* list before the lists.
format_rule_line_def_list_first(f) ==
    [f |-> write(close_list(close_def_list(close_indentation(
                 close_paragraph(close_table(f))))), <<"<hr />", LINESEP>>),
     raised |-> FALSE, result |-> <<>>]

\* The body of the loop for a horizontal rule.
format_rule_line(f) ==
    [f |-> write(close_def_list(close_list(close_indentation(
                 close_paragraph(close_table(f))))), <<"<hr />", LINESEP>>),
     raised |-> FALSE, result |-> <<>>]

\* A variant of the body for an empty line that closes the table as well.
format_blank_line_closing_table(f) ==
    [f |-> close_def_list(close_list(close_indentation(
               close_paragraph(close_table(f))))),
     raised |-> FALSE, result |-> <<>>]

\* The body of the loop for an empty line.
format_blank_line(f) ==
    [f |-> close_def_list(close_list(close_indentation(close_paragraph(f)))),
     raised |-> FALSE, result |-> <<>>]

\* One iteration of the loop of Formatter.format
format_line(f, line) ==
    IF IsCodeLine(f, line) THEN format_code_line(f, line)
    ELSE IF IsRuleLine(line) THEN format_rule_line(f)
    ELSE IF line = <<>> THEN format_blank_line(f)
    ELSE format_markup_line(f, line)

\* The statements after the loop without the last of them.
format_end_fence_open(f) ==
    [f |-> close_def_list(close_list(close_indentation(
               close_paragraph(close_table(f))))),
     raised |-> FALSE]

\* Formatter.format, the statements after the loop
format_end(f) ==
    close_code_blocks(close_def_list(close_list(close_indentation(
        close_paragraph(close_table(f))))))

\* Formatter.format(text, out) on the lines of a text, as one function:
\* [f |-> the Formatter afterwards, raised |-> an exception left the call]
RECURSIVE format_lines(_, _)
\* the loop goes on unless the iteration r raised
format_lines_on(r, lines) ==
    IF r.raised THEN [f |-> r.f, raised |-> TRUE] ELSE format_lines(r.f, lines)

format_lines(f, lines) ==
    IF lines = <<>> THEN format_end(f)
    ELSE format_lines_on(format_line(f, Head(lines)), Tail(lines))

format(f, lines) == format_lines(format_reset(f), lines)

\* ============================================== the document machine
\* A Formatter is constructed, format() is called on it, and the lines of
\* the text are met one at a step; the text is chosen line by line.
InitDoc ==
    /\ fmt = Formatter_init
    /\ pc = "idle"
    /\ text = <<>>
    /\ result = <<>>
    /\ prev = Formatter_init
    /\ last = <<>>
    /\ ret = <<>>
    /\ pass = 0

\* format() is entered: the per-pass state is assigned.
StartFormat ==
    /\ pc = "idle"
    /\ fmt' = format_reset(fmt)
    /\ pc' = "lines"
    /\ pass' = pass + 1
    /\ prev' = fmt
    /\ UNCHANGED <<text, result, last, ret>>

\* format() is entered again on the instance, for another text.
FormatAgain(max) ==
    /\ pc = "done"
    /\ pass < max
    /\ fmt' = format_reset(fmt)
    /\ pc' = "lines"
    /\ pass' = pass + 1
    /\ prev' = fmt
    /\ text' = <<>>
    /\ result' = <<>>
    /\ last' = <<>>
    /\ UNCHANGED ret

\* One iteration of the loop on the line l, r being what the body did.
LineStep(l, r) ==
    /\ fmt' = r.f
    /\ result' = r.result
    /\ pc' = IF r.raised THEN "aborted" ELSE "lines"
    /\ prev' = fmt
    /\ last' = l
    /\ text' = Append(text, l)
    /\ UNCHANGED <<ret, pass>>

CodeBlockLine(L, max) ==
    /\ pc = "lines"
    /\ Len(text) < max
    /\ \E l \in L : IsCodeLine(fmt, l) /\ LineStep(l, format_code_line(fmt, l))

RuleLine(max) ==
    /\ pc = "lines"
    /\ Len(text) < max
    /\ ~IsCodeLine(fmt, <<"----">>)
    /\ LineStep(<<"----">>, format_rule_line(fmt))

BlankLine(max) ==
    /\ pc = "lines"
    /\ Len(text) < max
    /\ ~IsCodeLine(fmt, <<>>)
    /\ LineStep(<<>>, format_blank_line(fmt))

MarkupLine(L, max) ==
    /\ pc = "lines"
    /\ Len(text) < max
    /\ \E l \in L :
          /\ ~IsCodeLine(fmt, l)
          /\ ~IsRuleLine(l)
          /\ l # <<>>
          /\ LineStep(l, format_markup_line(fmt, l))

\* The text has no more lines: the statements after the loop.
EndStep(r) ==
    /\ fmt' = r.f
    /\ pc' = IF r.raised THEN "aborted" ELSE "done"
    /\ prev' = fmt
    /\ UNCHANGED <<text, result, last, ret, pass>>

EndOfInput == pc = "lines" /\ EndStep(format_end(fmt))

\* --------------------------------------------------------------- bounds
MaxLines == 3

\* ------------------------------------------ documents of lists and text
Item(indent, marker, word) == [i \in 1..indent |-> SP] \o <<marker, SP, word>>

DocLines ==
    {Item(0, "*", "item1"), Item(0, "*", "item2"), Item(2, "*", "nested"),
     Item(1, "*", "item1"), Item(1, "*", "item2"), Item(3, "*", "nested"),
     Item(1, "1.", "item1"),
     <<"text">>, <<SP, SP, "text">>,
     <<"=", SP, "foo", SP, "=">>, <<"=", "=", SP, "foo", SP, "=", "=">>,
     <<"=", SP, "foo1", SP, "=">>, <<"=", SP, "1", SP, "=">>}

Next ==
    \/ StartFormat
    \/ MarkupLine(DocLines, MaxLines)
    \/ BlankLine(MaxLines)
    \/ RuleLine(MaxLines)
    \/ EndOfInput

Spec == InitDoc /\ [][Next]_vars

\* ------------------------------------------------ documents of escapes
\* Lines with a token behind the escape character, and lines that open a
\* toggle, a list and a paragraph for them to appear in.
EscapeLines ==
    {<<BANG, tok, "text">> : tok \in
        {BOLDITALIC_TOKEN, BOLD_TOKEN, ITALIC_TOKEN, UNDERLINE_TOKEN,
         STRIKE_TOKEN, SUBSCRIPT_TOKEN, SUPERSCRIPT_TOKEN,
         "wiki:Page", "[wiki:Page label]"}}
    \cup {<<BANG, "=", SP, "foo", SP, "=">>, <<SP, BANG, "*", SP, "item1">>,
          <<UNDERLINE_TOKEN, "text">>, Item(1, "*", "item1"), <<"text">>}

NextEscape ==
    \/ StartFormat
    \/ MarkupLine(EscapeLines, MaxLines)
    \/ BlankLine(MaxLines)
    \/ EndOfInput

SpecEscape == InitDoc /\ [][NextEscape]_vars

\* ------------------------------------------- texts for a reused instance
MaxPasses == 2

MaxReuseLines == 2

ReuseLines ==
    {<<"=", SP, "foo", SP, "=">>, <<ITALIC_TOKEN, "text">>,
     Item(1, "*", "item1")}

NextReuse ==
    \/ StartFormat
    \/ FormatAgain(MaxPasses)
    \/ MarkupLine(ReuseLines, MaxReuseLines)
    \/ BlankLine(MaxReuseLines)
    \/ EndOfInput

SpecReuse == InitDoc /\ [][NextReuse]_vars

\* ------------------------------------ texts of fences and macro calls
MaxFenceLines == 4

UNRESOLVED == "[[NoSuchMacro]]"

FenceLines ==
    {<<STARTBLOCK>>, <<ENDBLOCK>>, <<"#!Image">>, <<"#!NoSuch">>, <<"text">>,
     <<"[[Image]]">>, <<UNRESOLVED, SP, "text">>, <<SP, "*", SP, UNRESOLVED>>,
     <<"||", UNRESOLVED, "||">>}

NextFence ==
    \/ StartFormat
    \/ CodeBlockLine(FenceLines, MaxFenceLines)
    \/ MarkupLine(FenceLines, MaxFenceLines)
    \/ BlankLine(MaxFenceLines)
    \/ EndOfInput

SpecFence == InitDoc /\ [][NextFence]_vars

\* ------------------------------------ texts of every block structure
MaxBlockLines == 3

\* A fence, a paragraph, a table row, a definition, a quote, a list item,
\* two toggles left open and a citation.
BlockLines ==
    {<<STARTBLOCK>>, <<"text">>, <<"||", "cell", "||">>,
     <<SP, "term", "::", SP, "def">>, <<SP, SP, "text">>,
     Item(1, "*", "item1"), <<BOLD_TOKEN, "text">>, <<ITALIC_TOKEN, "text">>,
     <<">", SP, "cited">>}

NextBlocks ==
    \/ StartFormat
    \/ CodeBlockLine(BlockLines, MaxBlockLines)
    \/ MarkupLine(BlockLines, MaxBlockLines)
    \/ BlankLine(MaxBlockLines)
    \/ EndOfInput

SpecBlocks == InitDoc /\ [][NextBlocks]_vars

\* ------------------------------------- texts of nested block structures
MaxNestLines == 3

\* A citation of n ">" characters.
Citation(n) == [i \in 1..n |-> ">"] \o <<SP, "cited">>

\* A line of text behind n spaces.
Indented(n) == [i \in 1..n |-> SP] \o <<"text">>

\* List items of two types at three depths, indented text at three depths,
\* citations, table rows (one indented, one with no separator at its end),
\* a definition, headings of
\* one and of six "=" characters and a paragraph.
NestLines ==
    {Item(1, "*", "item1"), Item(2, "*", "item2"), Item(3, "*", "nested"),
     Item(1, "1.", "item1"),
     Indented(2), Indented(4), Indented(6),
     Citation(1), Citation(2),
     <<"||", "cell", "||">>, <<SP, SP, "||", "cell", "||">>, <<"||", "cell">>,
     <<SP, "term", "::", SP, "def">>,
     <<"=", SP, "foo", SP, "=">>,
     [i \in 1..6 |-> "="] \o <<SP, "foo", SP>> \o [i \in 1..6 |-> "="],
     <<"text">>}

NextNest ==
    \/ StartFormat
    \/ MarkupLine(NestLines, MaxNestLines)
    \/ BlankLine(MaxNestLines)
    \/ RuleLine(MaxNestLines)
    \/ EndOfInput

SpecNest == InitDoc /\ [][NextNest]_vars

\* ------------------------------- texts of fences among block structures
MaxInFenceLines == 4

\* The markers of a fence, a line that selects a processor, and lines that
\* are markup outside a fence: text, a table row, a list item, a quote, a
\* definition, an empty line and a horizontal rule.
InFenceLines ==
    {<<STARTBLOCK>>, <<ENDBLOCK>>, <<"#!html">>, <<"text">>,
     <<"||", "cell", "||">>, Item(1, "*", "item1"), Indented(2),
     <<SP, "term", "::", SP, "def">>, <<>>, <<"----">>}

NextInFence ==
    \/ StartFormat
    \/ CodeBlockLine(InFenceLines, MaxInFenceLines)
    \/ MarkupLine(InFenceLines, MaxInFenceLines)
    \/ BlankLine(MaxInFenceLines)
    \/ RuleLine(MaxInFenceLines)
    \/ EndOfInput

SpecInFence == InitDoc /\ [][NextInFence]_vars

\* --------------------------------- texts of spans in block structures
MaxSpanLines == 3

\* A toggle left open in a list item, in a table cell, in a definition and
\* in a paragraph; a cell separator behind text; the characters that are
\* escaped, as text, in inline code and in inline code behind the escape
\* character.
SpanLines ==
    {<<SP, "*", SP, BOLD_TOKEN, "item1">>, <<"||", ITALIC_TOKEN, "cell", "||">>,
     <<SP, "term", "::", SP, BOLD_TOKEN, "def">>, <<BOLD_TOKEN, "text">>,
     <<"text", "||", "cell">>, <<"<", "text", "&">>,
     <<STARTBLOCK, "<", ENDBLOCK>>, <<BANG, STARTBLOCK, "<", ENDBLOCK>>,
     <<"text">>}

NextSpans ==
    \/ StartFormat
    \/ MarkupLine(SpanLines, MaxSpanLines)
    \/ BlankLine(MaxSpanLines)
    \/ EndOfInput

SpecSpans == InitDoc /\ [][NextSpans]_vars

\* ------------------------------------------- texts of comment fences
MaxCommentLines == 4

\* The markers of a fence, the line that selects the comment processor, one
\* that selects another, and lines of text.
CommentLines ==
    {<<STARTBLOCK>>, <<ENDBLOCK>>, <<"#!comment">>, <<"#!html">>, <<"hidden">>,
     <<"text">>}

NextComment ==
    \/ StartFormat
    \/ CodeBlockLine(CommentLines, MaxCommentLines)
    \/ MarkupLine(CommentLines, MaxCommentLines)
    \/ BlankLine(MaxCommentLines)
    \/ EndOfInput

SpecComment == InitDoc /\ [][NextComment]_vars

\* ------------------------------------------------------ texts of links
MaxLinkLines == 2

\* One link on a line: with a registered resolver (also behind the alias w
\* and with a target in //), external, of another project (also behind the
\* alias t), of the InterWiki map, of both, and of no known namespace.
LinkLines ==
    {<<x>> : x \in ShrefLexemes \cup {"[wiki:Page label]", "[nosuch:x]"}}

NextLinks ==
    \/ StartFormat
    \/ MarkupLine(LinkLines, MaxLinkLines)
    \/ BlankLine(MaxLinkLines)
    \/ EndOfInput

SpecLinks == InitDoc /\ [][NextLinks]_vars

\* ================================================ the outline machine
\* OutlineFormatter.format: the text is formatted line by line as by
\* Formatter.format, into an output that is thrown away, and the outline
\* collected on the way is then written to out for the window asked for.
MaxOutlineLines == 3

\* A heading of the given depth.
Heading(depth, word) ==
    [i \in 1..depth |-> "="] \o <<SP, word, SP>> \o [i \in 1..depth |-> "="]

OutlineLines ==
    {Heading(1, "A"), Heading(2, "B"), Heading(1, "C"), Heading(3, "D"),
     <<"text">>, <<STARTBLOCK>>, <<ENDBLOCK>>}

\* The values of max_depth and min_depth.
WindowBounds == {0, 1, 2, 3, 7}

InitOutline ==
    /\ fmt = [Formatter_init EXCEPT !.flavor = "outline"]
    /\ pc = "idle"
    /\ text = <<>>
    /\ result = <<>>
    /\ prev = [Formatter_init EXCEPT !.flavor = "outline"]
    /\ last = <<>>
    /\ ret = <<>>
    /\ pass = 0

\* self.outline = [] and the entry of Formatter.format
StartOutline ==
    /\ pc = "idle"
    /\ fmt' = format_reset([fmt EXCEPT !.outline = <<>>])
    /\ pc' = "lines"
    /\ pass' = pass + 1
    /\ prev' = fmt
    /\ UNCHANGED <<text, result, last, ret>>

\* The statements after Formatter.format has returned; last keeps the
\* window <<max_depth, min_depth>> asked for, result what is written to out.
RenderOutline ==
    /\ pc = "done"
    /\ \E max_depth \in WindowBounds, min_depth \in WindowBounds :
          /\ result' = outline_render(fmt.outline, max_depth, min_depth)
          /\ last' = <<max_depth, min_depth>>
    /\ pc' = "outlined"
    /\ prev' = fmt
    /\ UNCHANGED <<fmt, text, ret, pass>>

NextOutline ==
    \/ StartOutline
    \/ CodeBlockLine(OutlineLines, MaxOutlineLines)
    \/ MarkupLine(OutlineLines, MaxOutlineLines)
    \/ EndOfInput
    \/ RenderOutline

SpecOutline == InitOutline /\ [][NextOutline]_vars

\* ============================================ the fences of the variants
\* The same lines of fence markers and text are met by the loop of the
\* Document, the Outline and the Inline variant.  For the Inline variant
\* ret holds the state of the loop that simplifies the code blocks and
\* prev the state before the last line.
MaxVariantLines == 4

VariantLines ==
    {<<STARTBLOCK>>, <<ENDBLOCK>>, <<SP, ENDBLOCK>>, <<"#!comment">>,
     <<"text">>}

Flavors == {"default", "outline", "oneliner"}

\* in_code_block = 0; processor = None; buf = StringIO()
oneliner_init == [n |-> 0, processor |-> NONE, buf |-> <<>>]

InitVariants ==
    /\ \E v \in Flavors :
          /\ fmt = [Formatter_init EXCEPT !.flavor = v]
          /\ pc = IF v = "oneliner" THEN "inline" ELSE "idle"
          /\ ret = IF v = "oneliner" THEN oneliner_init ELSE <<>>
          /\ prev = IF v = "oneliner" THEN oneliner_init ELSE Formatter_init
    /\ text = <<>>
    /\ result = <<>>
    /\ last = <<>>
    /\ pass = 0

\* A line of the loop of OneLinerFormatter.format.
InlineLine(L, max) ==
    /\ pc = "inline"
    /\ Len(text) < max
    /\ \E l \in L :
          /\ ret' = oneliner_line(ret, l)
          /\ last' = l
          /\ text' = Append(text, l)
    /\ prev' = ret
    /\ UNCHANGED <<fmt, pc, result, pass>>

\* The statements of OneLinerFormatter.format after the loop.
InlineEnd ==
    /\ pc = "inline"
    /\ text # <<>>
    /\ result' = oneliner_format(ret)
    /\ pc' = "inlined"
    /\ UNCHANGED <<fmt, text, prev, last, ret, pass>>

NextVariants ==
    \/ StartFormat
    \/ CodeBlockLine(VariantLines, MaxVariantLines)
    \/ MarkupLine(VariantLines, MaxVariantLines)
    \/ EndOfInput
    \/ InlineLine(VariantLines, MaxVariantLines)
    \/ InlineEnd

SpecVariants == InitVariants /\ [][NextVariants]_vars

\* ============================================ the InterWiki expansion
\* A url template of the map and the parts of a target are chosen, and the
\* template is expanded as InterWikiMap.url() expands it.
MaxArgs == 3

Templates ==
    {<<"http://x.org/">>, <<"http://x.org/", "$1">>,
     <<"http://x.org/", "$2", "/", "$1">>, <<"http://x.org/", "$0">>,
     <<"http://x.org/", "$3">>, <<"http://x.org/", "$1", "$9">>}

\* The parts a target can have around its colons.
ArgValues == {"a", "b", "c", "", "$1"}

ArgLists == UNION {[1..n -> ArgValues] : n \in 1..MaxArgs}

InitInterWiki ==
    /\ fmt = Formatter_init
    /\ pc = "expand"
    /\ text \in Templates
    /\ last \in ArgLists
    /\ result = <<>>
    /\ prev = Formatter_init
    /\ ret = <<>>
    /\ pass = 0

\* expanded_url = self._expand_or_append(url, args); result keeps what
\* _expand(url, args) gives.
Expand ==
    /\ pc = "expand"
    /\ ret' = expand_or_append(text, last)
    /\ result' = expand(text, last)
    /\ pc' = "expanded"
    /\ UNCHANGED <<fmt, text, prev, last, pass>>

NextInterWiki == Expand

SpecInterWiki == InitInterWiki /\ [][NextInterWiki]_vars

\* ========================================== the InterWikiMap component
\* The component caches the prefixes defined by the InterMapTxt page and
\* listens to the changes of that page.  fmt holds the component, text
\* the versions of the page (empty when the page does not exist), last
\* the event or lookup handled last, pass the number of steps taken.
MaxEvents == 3

PAGE_NAME == "InterMapTxt"

\* Texts of the page: definitions with and without a title, inside and
\* outside the delimited section, and lines that define nothing.
PageTexts ==
    {<<<<"----">>,
       <<"mw", SP, "http://mw.example.org/", SP, "#", "MeatBall">>,
       <<"----">>>>,
     <<<<"----">>, <<"trac", SP, "http://trac.example.org/">>, <<"----">>,
       <<"mw", SP, "http://mw.example.org/", SP, "#", "MeatBall">>>>,
     <<<<"text">>, <<"----">>, <<"text">>,
       <<"trac", SP, "http://trac.example.org/">>>>,
     <<<<"text">>>>}

Namespaces == {"mw", "MW", "trac", "nosuch"}

\* self._interwiki_map = None
InterWikiMap_init ==
    [interwiki_map_is_none |-> TRUE, interwiki_map |-> <<>>]

\* WikiPage(self.env, InterWikiMap._page_name).text
page_text(versions) ==
    IF versions = <<>> THEN <<>> ELSE versions[Len(versions)]

\* re.match(InterWikiMap._interwiki_re, line)
interwiki_re_match(line) ==
    /\ Len(line) >= 3
    /\ line[1] \notin {SP, "#"}
    /\ line[2] = SP
    /\ line[3] \notin {SP}

\* title and title.strip() or prefix
entry_title(line) ==
    IF Len(line) >= 6 /\ line[4] = SP /\ line[5] = "#" /\ line[6] # ""
    THEN line[6] ELSE line[1]

\* The loop of _update() over the lines of the page.
RECURSIVE update_lines(_, _, _)
update_lines(lines, in_map, m) ==
    IF lines = <<>> THEN m
    ELSE IF in_map
    THEN IF lines[1][1] = "----"
         THEN update_lines(Tail(lines), FALSE, m)
         ELSE IF interwiki_re_match(lines[1])
         THEN update_lines(Tail(lines), TRUE,
                  (Upper(lines[1][1]) :>
                       <<lines[1][1], lines[1][3], entry_title(lines[1])>>)
                  @@ m)
         ELSE update_lines(Tail(lines), TRUE, m)
    ELSE update_lines(Tail(lines), lines[1][1] = "----", m)

\* _update(): the map is rebuilt from the text of the page.
interwiki_update(c, content) ==
    [c EXCEPT !.interwiki_map_is_none = FALSE,
              !.interwiki_map = update_lines(content, FALSE, <<>>)]

\* if not self._interwiki_map: self._update()
interwiki_loaded(c, content) ==
    IF c.interwiki_map_is_none \/ DOMAIN c.interwiki_map = {}
    THEN interwiki_update(c, content) ELSE c

\* has_key(ns)
has_key(c, content, ns) ==
    [f |-> interwiki_loaded(c, content),
     ret |-> Upper(ns) \in DOMAIN interwiki_loaded(c, content).interwiki_map]

\* wiki_page_added(page)
wiki_page_added(c, name, content) ==
    IF name = PAGE_NAME THEN interwiki_update(c, content) ELSE c

\* wiki_page_changed without the refresh of the map
wiki_page_changed_unrefreshed(c, name, content) == c

\* wiki_page_changed(page, ...)
wiki_page_changed(c, name, content) ==
    IF name = PAGE_NAME THEN interwiki_update(c, content) ELSE c

\* wiki_page_version_deleted(page)
wiki_page_version_deleted(c, name, content) ==
    IF name = PAGE_NAME THEN interwiki_update(c, content) ELSE c

\* wiki_page_deleted(page): self._interwiki_map.clear() raises when the
\* attribute is None.
wiki_page_deleted(c, name) ==
    IF name # PAGE_NAME THEN [f |-> c, raised |-> FALSE]
    ELSE IF c.interwiki_map_is_none THEN [f |-> c, raised |-> TRUE]
    ELSE [f |-> [c EXCEPT !.interwiki_map = <<>>], raised |-> FALSE]

InitInterWikiMap ==
    /\ fmt = InterWikiMap_init
    /\ pc = "idle"
    /\ text \in {<<>>} \cup {<<t>> : t \in PageTexts}
    /\ last = <<>>
    /\ result = <<>>
    /\ prev = InterWikiMap_init
    /\ ret = FALSE
    /\ pass = 0

\* What a step on the component records.
EventHandled(c, event, failed) ==
    /\ pass < MaxEvents
    /\ pass' = pass + 1
    /\ prev' = fmt
    /\ fmt' = c
    /\ last' = event
    /\ pc' = IF failed THEN "raised" ELSE "idle"

\* The InterMapTxt page is created.
PageAdded(t) ==
    /\ text = <<>>
    /\ text' = <<t>>
    /\ EventHandled(wiki_page_added(fmt, PAGE_NAME, t), <<"added">>, FALSE)
    /\ UNCHANGED <<result, ret>>

\* A new version of the page is saved.
PageChanged(t) ==
    /\ text # <<>>
    /\ text' = Append(text, t)
    /\ EventHandled(wiki_page_changed(fmt, PAGE_NAME, t), <<"changed">>, FALSE)
    /\ UNCHANGED <<result, ret>>

\* The latest version of the page is deleted and an older one remains.
PageVersionDeleted ==
    /\ Len(text) >= 2
    /\ text' = SubSeq(text, 1, Len(text) - 1)
    /\ EventHandled(wiki_page_version_deleted(fmt, PAGE_NAME,
                   page_text(SubSeq(text, 1, Len(text) - 1))),
               <<"version_deleted">>, FALSE)
    /\ UNCHANGED <<result, ret>>

\* The page is deleted with all its versions.
PageDeleted ==
    /\ text # <<>>
    /\ text' = <<>>
    /\ EventHandled(wiki_page_deleted(fmt, PAGE_NAME).f, <<"deleted">>,
               wiki_page_deleted(fmt, PAGE_NAME).raised)
    /\ UNCHANGED <<result, ret>>

\* An event of another page reaches the listener.
OtherPageEvent(t) ==
    /\ \/ EventHandled(wiki_page_added(fmt, "WikiStart", t), <<"other">>, FALSE)
       \/ EventHandled(wiki_page_changed(fmt, "WikiStart", t), <<"other">>, FALSE)
       \/ EventHandled(wiki_page_version_deleted(fmt, "WikiStart", t),
                  <<"other">>, FALSE)
       \/ EventHandled(wiki_page_deleted(fmt, "WikiStart").f, <<"other">>,
                  wiki_page_deleted(fmt, "WikiStart").raised)
    /\ UNCHANGED <<text, result, ret>>

\* A link resolver asks for a prefix.
HasKey(ns) ==
    /\ EventHandled(has_key(fmt, page_text(text), ns).f, <<"has_key", ns>>, FALSE)
    /\ ret' = has_key(fmt, page_text(text), ns).ret
    /\ UNCHANGED <<text, result>>

NextInterWikiMap ==
    \/ \E t \in PageTexts : PageAdded(t)
    \/ \E t \in PageTexts : PageChanged(t)
    \/ PageVersionDeleted
    \/ PageDeleted
    \/ \E t \in PageTexts : OtherPageEvent(t)
    \/ \E ns \in Namespaces : HasKey(ns)

SpecInterWikiMap == InitInterWikiMap /\ [][NextInterWikiMap]_vars

\* ================================================ the toggle machine
\* One line of font-style tokens is scanned, one token at a step.
ToggleTokens ==
    {BOLDITALIC_TOKEN, BOLD_TOKEN, ITALIC_TOKEN, UNDERLINE_TOKEN,
     STRIKE_TOKEN, SUBSCRIPT_TOKEN, SUPERSCRIPT_TOKEN}

InitToggle ==
    /\ fmt = format_reset(Formatter_init)
    /\ pc = "sub"
    /\ text = <<>>
    /\ result = <<>>
    /\ prev = format_reset(Formatter_init)
    /\ last = <<>>
    /\ ret = <<>>
    /\ pass = 1

\* r is what the substitution of the handlers did on the token.
ToggleStep(tok, r) ==
    /\ fmt' = r.f
    /\ ret' = r.ret
    /\ result' = result \o r.ret
    /\ prev' = fmt
    /\ last' = <<tok>>
    /\ text' = Append(text, tok)
    /\ UNCHANGED <<pc, pass>>

Toggle(tok) ==
    /\ pc = "sub"
    /\ Len(text) < MaxTokens
    /\ ToggleStep(tok, re_sub(fmt, <<tok>>))

NextToggle == \E tok \in ToggleTokens : Toggle(tok)

SpecToggle == InitToggle /\ [][NextToggle]_vars

\* The toggle tokens met one after another without a limit on their
\* number: the text met is not recorded, only the stack and the last step.
ToggleOn(tok, r) ==
    /\ pc = "sub"
    /\ fmt' = r.f
    /\ ret' = r.ret
    /\ prev' = fmt
    /\ last' = <<tok>>
    /\ UNCHANGED <<pc, text, result, pass>>

NextStack == \E tok \in ToggleTokens : ToggleOn(tok, re_sub(fmt, <<tok>>))

SpecStack == InitToggle /\ [][NextStack]_vars

\* ------------------------------------------- properties of the toggles
ITALIC == <<"<i>", "</i>">>

BOLD == <<"<strong>", "</strong>">>

\* The (open, close) pair each simple toggle token stands for.
PairOfToken(tok) ==
    CASE tok = BOLD_TOKEN -> BOLD
      [] tok = ITALIC_TOKEN -> ITALIC
      [] tok = UNDERLINE_TOKEN -> <<"<span class=\"underline\">", "</span>">>
      [] tok = STRIKE_TOKEN -> <<"<del>", "</del>">>
      [] tok = SUBSCRIPT_TOKEN -> <<"<sub>", "</sub>">>
      [] tok = SUPERSCRIPT_TOKEN -> <<"<sup>", "</sup>">>

SimpleToggleTokens == ToggleTokens \ {BOLDITALIC_TOKEN}

\* The last step handled a simple toggle whose pair was at index i of the
\* stack, below the top.
ClosedBelowTop(i) ==
    /\ last # <<>>
    /\ last[1] \in SimpleToggleTokens
    /\ i \in 1..(Len(prev.open_tags) - 1)
    /\ prev.open_tags[i] = PairOfToken(last[1])

\* C1: closing a pair that is open below the top of the stack returns the
\* closing tags of the frames above it, top first, then its own closing
\* tag, then the opening tags of those frames, bottom first; the stack
\* afterwards is the previous stack without the target frame.
C1_CloseBelowTop ==
    \A i \in 1..Len(prev.open_tags) :
        ClosedBelowTop(i) =>
            LET n == Len(prev.open_tags)
                closers == [k \in 1..(n - i) |-> prev.open_tags[n + 1 - k][2]]
                openers == [k \in 1..(n - i) |-> prev.open_tags[i + k][1]]
            IN  /\ ret = closers \o <<prev.open_tags[i][2]>> \o openers
                /\ fmt.open_tags = RemoveAt(prev.open_tags, i)

\* A pair two frames below the top has been closed.
C1_Witness ==
    \E i \in 1..Len(prev.open_tags) :
        ClosedBelowTop(i) /\ Len(prev.open_tags) >= i + 2

BoldItalicOnItalic ==
    last = <<BOLDITALIC_TOKEN>> /\ tag_open_p(prev, ITALIC)

\* C2 as stated: after a combined bold-italic token met with an italic
\* frame open, the italic frame is on the stack again.
C2_ItalicReopened == BoldItalicOnItalic => tag_open_p(fmt, ITALIC)

\* C2 amended: a combined bold-italic token met with an italic frame open
\* emits the italic closing tag first, removes the italic frame and does
\* not re-open it; the other frames keep their order and bold is toggled.
\* Met with no italic frame open, it toggles bold and then opens italic on
\* top of the stack.
C2_ItalicToggled ==
    last = <<BOLDITALIC_TOKEN>> =>
        LET without == SelectSeq(prev.open_tags, LAMBDA p : p # ITALIC)
            toggled == IF tag_open_p(prev, BOLD)
                       THEN SelectSeq(without, LAMBDA p : p # BOLD)
                       ELSE Append(without, BOLD)
        IN  IF tag_open_p(prev, ITALIC)
            THEN /\ ~tag_open_p(fmt, ITALIC)
                 /\ ret[1] = ITALIC[2]
                 /\ fmt.open_tags = toggled
            ELSE /\ fmt.open_tags = Append(toggled, ITALIC)
                 /\ ret[Len(ret)] = ITALIC[1]

\* The combined token met an italic frame lying below another frame.
C2_Witness ==
    /\ BoldItalicOnItalic
    /\ Len(prev.open_tags) >= 2
    /\ prev.open_tags[1] = ITALIC

OpeningTags == {PairOfToken(t)[1] : t \in SimpleToggleTokens}

ClosingTags == {PairOfToken(t)[2] : t \in SimpleToggleTokens}

ClosingOf(open) ==
    PairOfToken(CHOOSE t \in SimpleToggleTokens : PairOfToken(t)[1] = open)[2]

\* Every closing tag of items[i..] closes the most recently emitted opening
\* tag that is still unclosed; stack holds the unclosed opening tags.
RECURSIVE NestedFrom(_, _, _)
NestedFrom(items, i, stack) ==
    IF i > Len(items) THEN TRUE
    ELSE IF items[i] \in OpeningTags
         THEN NestedFrom(items, i + 1, Append(stack, items[i]))
         ELSE IF items[i] \in ClosingTags
              THEN /\ stack # <<>>
                   /\ ClosingOf(stack[Len(stack)]) = items[i]
                   /\ NestedFrom(items, i + 1, SubSeq(stack, 1, Len(stack) - 1))
              ELSE NestedFrom(items, i + 1, stack)

\* C3: the tags emitted by the toggle handlers are properly nested, for
\* every order of toggle tokens.
C3_ProperlyNested == NestedFrom(result, 1, <<>>)

\* ------------------------------------------------------------- escapes
\* The tokens the escape character is said to act on: the toggles, the
\* heading and list markers, and the links.
EscapableTokens ==
    {BOLDITALIC_TOKEN, BOLD_TOKEN, ITALIC_TOKEN, UNDERLINE_TOKEN, STRIKE_TOKEN,
     SUBSCRIPT_TOKEN, SUPERSCRIPT_TOKEN, "="} \cup ListMarkers
    \cup ShrefLexemes \cup LhrefLexemes

\* The position of the escape character of a line that starts, after its
\* indentation, with an escaped token; 0 for the other lines.
EscapeAt(line) ==
    IF /\ LeadingSpaces(line) + 2 <= Len(line)
       /\ line[LeadingSpaces(line) + 1] = BANG
       /\ line[LeadingSpaces(line) + 2] \in EscapableTokens
    THEN LeadingSpaces(line) + 1
    ELSE 0

\* The line with the escaped token emitted literally and without the "!":
\* what is written for the line (the indentation is matched, not written).
LiteralLine(line) == SubSeq(line, EscapeAt(line) + 1, Len(line))

\* The line with plain text in the place of the "!" and the token.
PlainLine(line) ==
    SubSeq(line, 1, EscapeAt(line) - 1) \o <<"text">>
    \o SubSeq(line, EscapeAt(line) + 2, Len(line))

\* The toggle stack, list stack, quote stack, table state and anchors.
StructState(f) ==
    <<f.open_tags, f.list_stack, f.quote_stack, f.in_table, f.in_table_row,
      f.in_table_cell, f.anchors>>

\* C4: a line whose first token is escaped with "!" is written with the
\* token literal and the "!" dropped, and leaves the toggle stack, the list
\* stack, the quote stack, the table state and the anchors as the same line
\* with plain text in the place of the token leaves them.
C4_EscapeLeavesState ==
    (pc = "lines" /\ EscapeAt(last) > 0) =>
        /\ result = LiteralLine(last)
        /\ StructState(fmt) = StructState(format_line(prev, PlainLine(last)).f)

\* ------------------------------------------------------- heading anchors
Registered(anchors, a) == \E k \in 1..Len(anchors) : anchors[k] = a

\* The base id of the heading on the line: the text between the "=" runs,
\* rendered on one line, stripped of tags and of what no id may hold.
HeadingBase(line) ==
    anchor_base_of(wiki_to_oneliner(
        HeadingText([itype |-> "heading", pos |-> 1, len |-> Len(line),
                     line |-> line])))

\* The line the last step handled is a heading.
HeadingHandled == pc = "lines" /\ text # <<>> /\ HeadingLen(last) > 0

\* C5: no anchor id is given out twice, and a heading gets its base id if
\* that is not registered and else the base id followed by the smallest
\* positive integer k for which base+k is not registered.
C5_AnchorsUnique ==
    /\ \A i, j \in 1..Len(fmt.anchors) :
          i # j => fmt.anchors[i] # fmt.anchors[j]
    /\ HeadingHandled =>
          LET base == HeadingBase(last)
              given == fmt.anchors[Len(fmt.anchors)]
          IN  /\ fmt.anchors = Append(prev.anchors, given)
              /\ IF ~Registered(prev.anchors, base) THEN given = base
                 ELSE \E k \in 1..(Len(prev.anchors) + 1) :
                         /\ given = base \o ToString(k)
                         /\ ~Registered(prev.anchors, given)
                         /\ \A j \in 1..(k - 1) :
                               Registered(prev.anchors, base \o ToString(j))

\* C5 witness: the third heading finds its base id and the base id with the
\* suffix 1 registered, the latter by a heading of that very text.
C5_Witness ==
    /\ HeadingHandled
    /\ text = <<<<"=", SP, "foo", SP, "=">>, <<"=", SP, "foo1", SP, "=">>,
                <<"=", SP, "foo", SP, "=">>>>
    /\ fmt.anchors = <<"foo", "foo1", "foo2">>

\* ------------------------------------------------------ reused instance
\* C6: when a call of format() has returned, the output is the output of
\* formatting the same text on a new instance, whatever the instance has
\* formatted before.
C6_FreshEachPass ==
    pc = "done" => fmt.out = format(Formatter_init, text).f.out

UnresolvedBlockClosed ==
    /\ pc \in {"lines", "done"}
    /\ prev.in_code_block = 1
    /\ fmt.in_code_block = 0
    /\ prev.code_processor.error # NONE

\* What the last step wrote.
Written == SubSeq(fmt.out, Len(prev.out) + 1, Len(fmt.out))

Contains(items, part) ==
    \E i \in 0..(Len(items) - Len(part)) :
        SubSeq(items, i + 1, i + Len(part)) = part

\* C8: when the fenced block of an unresolved processor is closed, the
\* buffered text is written as a raw preformatted block and the failure is
\* written as well.
C8_UnresolvedStillRendered ==
    UnresolvedBlockClosed =>
        /\ Contains(Written, default_processor(prev.code_text).ret)
        /\ Contains(Written, <<prev.code_processor.error>>)

\* The error box of a macro call whose name cannot be resolved.
ErrorBox(name) ==
    system_message("Error: Failed to load processor <code>" \o name \o "</code>",
                   <<"No macro named [[" \o name \o "]] found">>)

\* items with seq in the place of each x
RECURSIVE Splice(_, _, _)
Splice(items, x, seq) ==
    IF items = <<>> THEN <<>>
    ELSE (IF Head(items) = x THEN seq ELSE <<Head(items)>>)
         \o Splice(Tail(items), x, seq)

\* The line with a word of plain text in the place of the macro call.
WORD == "word"

PlainCall(line) == Splice(line, UNRESOLVED, <<WORD>>)

\* The last step handled a line of markup with an unresolved macro call.
UnresolvedCallHandled ==
    /\ pc \in {"lines", "aborted"}
    /\ text # <<>>
    /\ prev.in_code_block = 0
    /\ \E q \in 1..Len(last) : last[q] = UNRESOLVED

\* C9: a line with an unresolved macro call is written as the line with
\* plain text in the place of the call is, but for an error box naming the
\* macro where the text would be, and leaves the same state, so that the
\* lines that follow are handled alike.
C9_UnresolvedMacro ==
    UnresolvedCallHandled =>
        /\ pc = "lines"
        /\ [fmt EXCEPT !.out = <<>>]
              = [format_line(prev, PlainCall(last)).f EXCEPT !.out = <<>>]
        /\ fmt.out = Splice(format_line(prev, PlainCall(last)).f.out, WORD,
                            ErrorBox("NoSuchMacro"))
        /\ \E q \in 1..Len(Written) :
              Written[q] = "No macro named [[NoSuchMacro]] found"

\* C9 witness: the call is the text of a list item, in an open list.
C9_Witness ==
    /\ UnresolvedCallHandled
    /\ last = <<SP, "*", SP, UNRESOLVED>>
    /\ prev.list_stack # <<>>
    /\ fmt.list_stack = prev.list_stack

\* ------------------------------------------------------- nested lists
\* The items written, without the line separators.
Unbroken(items) == SelectSeq(items, LAMBDA x : x # LINESEP)

NestedList ==
    <<"<ul>", "<li>", "item1", "</li>", "<li>", "item2", "<ul>", "<li>",
      "nested", "</li>", "</ul>", "</li>", "</ul>">>

\* C10 as stated: the markers of the first two lines at column 0, the third
\* line indented by two spaces.
C10_NestedListAtColumn0 ==
    (pc = "done" /\ text = <<Item(0, "*", "item1"), Item(0, "*", "item2"),
                             Item(2, "*", "nested")>>)
        => Unbroken(fmt.out) = NestedList

\* C10, amended: the first two lines indented by one space and the third by
\* three give one list of two items, the second holding a nested list of one
\* item, every list and item closed.
C10_NestedListIndented ==
    (pc = "done" /\ text = <<Item(1, "*", "item1"), Item(1, "*", "item2"),
                             Item(3, "*", "nested")>>)
        => Unbroken(fmt.out) = NestedList

C10_Witness ==
    /\ pc = "done"
    /\ text = <<Item(1, "*", "item1"), Item(1, "*", "item2"),
                Item(3, "*", "nested")>>
    /\ fmt.list_stack = <<>>
    /\ Len(prev.list_stack) = 2

\* ------------------------------------------------ closing all nesting
\* The closing tags of the list frames, the top of the stack first.
ListClosers(stack) ==
    [i \in 1..(2 * Len(stack)) |->
        IF i % 2 = 1 THEN "</li>"
        ELSE "</" \o stack[Len(stack) + 1 - (i \div 2)][1] \o ">"]

\* One closing tag and a line separator for each of n quote frames.
QuoteClosers(n) ==
    [i \in 1..(2 * n) |-> IF i % 2 = 1 THEN "</blockquote>" ELSE LINESEP]

\* close_list() removes the frames of the list stack, writes the two closing
\* tags of each of them and touches nothing else.
ListsClosed(f) ==
    close_list(f) =
        [f EXCEPT !.list_stack = <<>>, !.out = @ \o ListClosers(f.list_stack)]

\* close_indentation() does nothing on an empty quote stack; otherwise it
\* closes the table and the paragraph (as close_quote does), removes the
\* frames of the quote stack and writes one closing tag for each of them.
QuotesClosed(f, g) ==
    close_indentation(f) =
        IF f.quote_stack = <<>> THEN f
        ELSE [g EXCEPT !.quote_stack = <<>>,
                       !.out = @ \o QuoteClosers(Len(f.quote_stack))]

\* C11: in every reachable state, close_list and close_indentation pop
\* exactly the frames that are on the list stack and on the quote stack,
\* write closing tags for these frames only, write nothing and change
\* nothing when the stack is empty, and leave the stack empty: no pop is
\* applied to an empty stack, so that neither call can raise.
C11_NoUnderflow ==
    /\ ListsClosed(fmt)
    /\ QuotesClosed(fmt, close_paragraph(close_table(fmt)))
    /\ fmt.list_stack = <<>> => close_list(fmt) = fmt

\* The end of the input closes two list levels; the closes that follow on
\* the empty stacks change nothing.
C11_Witness ==
    /\ pc = "done"
    /\ Len(prev.list_stack) = 2
    /\ fmt.list_stack = <<>>
    /\ fmt.out = close_list(prev).out
    /\ close_list(fmt) = fmt
    /\ close_indentation(fmt) = fmt

\* --------------------------------------------- the end of the input
\* No block structure of f is open.
AllClosed(f) ==
    /\ f.in_table = 0
    /\ f.in_table_row = 0
    /\ f.in_table_cell = 0
    /\ f.paragraph_open = 0
    /\ f.quote_stack = <<>>
    /\ f.list_stack = <<>>
    /\ f.in_def_list = 0
    /\ f.in_code_block = 0

\* f after the closes that come before close_code_blocks() at the end.
StructuresClosed(f) ==
    close_def_list(close_list(close_indentation(close_paragraph(close_table(f)))))

\* n lines of the end marker of a fence.
EndMarkers(n) == [i \in 1..n |-> <<ENDBLOCK>>]

\* What is written for the fence g leaves open: the text buffered, with the
\* end markers of the inner levels, goes through the processor of the fence;
\* a fence of which only the start marker was seen writes nothing.
FenceFlush(g) ==
    IF g.in_code_block = 0 \/ g.code_processor = NoProcessor THEN <<>>
    ELSE process(g.code_processor,
                 g.code_text \o EndMarkers(g.in_code_block - 1), FALSE).ret

\* C12: when format() has returned, the table, row and cell flags are
\* false, no paragraph is open, the quote stack and the list stack are
\* empty, no definition list is open and the fence counter is zero; the
\* text of a fence that was open at the end of the input has been written
\* through its processor, after the other structures were closed.
C12_AllClosedAtEnd ==
    pc = "done" =>
        /\ AllClosed(fmt)
        /\ fmt.out = StructuresClosed(prev).out \o FenceFlush(prev)

\* The input ends in a fence holding a line of text, opened in a list item.
C12_Witness ==
    /\ pc = "done"
    /\ text = <<Item(1, "*", "item1"), <<STARTBLOCK>>, <<"text">>>>
    /\ prev.in_code_block = 1
    /\ prev.list_stack # <<>>
    /\ AllClosed(fmt)
    /\ FenceFlush(prev) # <<>>

\* ------------------------------------------------- the order of links
\* The namespace a link is resolved in: the alias configured for it, if any.
Aliased(ns) ==
    IF IntertracConfig(Upper(ns)) # NONE THEN IntertracConfig(Upper(ns)) ELSE ns

HasResolver(ns) == ns \in LinkResolvers

IsExternal(ns, target) == target[1] = "//" \/ ns = "mailto"

IsInterTrac(ns) == IntertracConfig(Upper(ns) \o ".url") # NONE

IsInterWiki(ns) == Upper(ns) \in DOMAIN InterWikiEntries

\* The label of the link lexeme x: the text of a short link, the label or
\* else the target of a long one.
LabelOf(x) == IF x \in ShrefLexemes THEN x ELSE lhref_label(x)

\* What the order of the claim gives for the namespace ns (the alias
\* applied), the target t and the label l of the lexeme x.
ResolvedInOrder(ns, t, l, x) ==
    IF HasResolver(ns)
    THEN <<"<a class=\"wiki\" href=\"/wiki/" \o TargetText(t) \o "\">",
           Escape(l), "</a>">>
    ELSE IF IsExternal(ns, t)
    THEN make_ext_link(fmt, <<ns \o ":">> \o t, l, "")
    ELSE IF IsInterTrac(ns) THEN make_intertrac_link(fmt, ns, t, l)
    ELSE IF IsInterWiki(ns) THEN make_interwiki_link(fmt, ns, t, l)
    ELSE <<x>>

\* The last line read was one link.
LinkHandled == pc \in {"lines", "aborted"} /\ last \in LinkLines

\* C13: a link is resolved in the namespace its alias stands for; there a
\* registered resolver wins (also for a target in //), else a target in //
\* or the mail scheme gives an external link, else the link of another
\* project is tried before the InterWiki link, and a link that is none of
\* these is written as the text that was matched, with no error.
C13_ResolutionOrder ==
    LinkHandled =>
        /\ pc = "lines"
        /\ result = ResolvedInOrder(Aliased(LinkNs(last[1])),
                                    LinkTarget(last[1]), LabelOf(last[1]),
                                    last[1])

\* A link with a resolver and a target in //, a link that is of another
\* project and of the InterWiki map, and an unknown one have been read.
C13_Witness ==
    /\ pc = "lines"
    /\ text = <<<<"wiki://x">>, <<"both:a">>>>
    /\ HasResolver("wiki") /\ IsExternal("wiki", LinkTarget("wiki://x"))
    /\ IsInterTrac("both") /\ IsInterWiki("both")
    /\ result = make_intertrac_link(fmt, "both", <<"a">>, "both:a")
    /\ result # make_interwiki_link(fmt, "both", <<"a">>, "both:a")

\* ------------------------------------------ properties of the expansion
\* The index n of the placeholder "$n".
IndexOf(x) ==
    CASE x = "$0" -> 0 [] x = "$1" -> 1 [] x = "$2" -> 2 [] x = "$3" -> 3
      [] x = "$9" -> 9

IsPlaceholder(x) == x \in {"$0", "$1", "$2", "$3", "$9"}

\* The template with the n-th argument in the place of each "$n", and the
\* empty string where there is no n-th argument.
Positional(template, args) ==
    [i \in 1..Len(template) |->
        IF IsPlaceholder(template[i])
        THEN IF IndexOf(template[i]) \in 1..Len(args)
             THEN args[IndexOf(template[i])] ELSE ""
        ELSE template[i]]

HasPlaceholder(template) ==
    \E i \in 1..Len(template) : IsPlaceholder(template[i])

\* C14: the expansion puts the n-th part of the colon-split target in the
\* place of each placeholder $n, and the empty string in the place of $0
\* and of a $n beyond the last part; the template http://x.org/$1 with the
\* target a:b:c gives the url http://x.org/a.
C14_PositionalExpansion ==
    pc = "expanded" =>
        /\ result = Positional(text, last)
        /\ (text = <<"http://x.org/", "$1">> /\ last = <<"a", "b", "c">>)
              => Concat(ret) = "http://x.org/a"

\* The template http://x.org/$2/$1 has been expanded for the target a, and
\* the template http://x.org/$1 for the target a:b:c.
C14_Witness ==
    /\ pc = "expanded"
    /\ \/ /\ text = <<"http://x.org/", "$2", "/", "$1">>
          /\ last = <<"a">>
          /\ Concat(result) = "http://x.org//a"
       \/ /\ text = <<"http://x.org/", "$1">>
          /\ last = <<"a", "b", "c">>
          /\ Concat(ret) = "http://x.org/a"

\* C15: for every template and every non-empty list of arguments, the
\* expanded url is the template followed by the first argument if the
\* template has no placeholder, and the positional substitution otherwise.
C15_AppendIffNoPlaceholder ==
    pc = "expanded" =>
        Concat(ret) = IF HasPlaceholder(text)
                      THEN Concat(Positional(text, last))
                      ELSE Concat(text) \o last[1]

\* ------------------------------------------- properties of the outline
\* The window asked for as <<max_depth, min_depth>>, its bounds put in
\* order, the lower one raised to 1 and the upper one lowered to 6.
WindowLow(w) ==
    IF (IF w[1] < w[2] THEN w[1] ELSE w[2]) < 1 THEN 1
    ELSE IF w[1] < w[2] THEN w[1] ELSE w[2]

WindowHigh(w) ==
    IF (IF w[1] > w[2] THEN w[1] ELSE w[2]) > 6 THEN 6
    ELSE IF w[1] > w[2] THEN w[1] ELSE w[2]

\* The entries of the outline with a depth in the window w.
InWindow(outline, w) ==
    SelectSeq(outline, LAMBDA e : WindowLow(w) <= e[1] /\ e[1] <= WindowHigh(w))

\* The items of the outline written that are links to headings.
IsStructure(x) == x \in {"<ol>", "<li>", "</li>", "</ol>", LINESEP}

LinksOf(items) == SelectSeq(items, LAMBDA x : ~IsStructure(x))

\* The position of the k-th link in items.
RECURSIVE LinkPos(_, _, _)
LinkPos(items, k, from) ==
    IF ~IsStructure(items[from])
    THEN IF k = 1 THEN from ELSE LinkPos(items, k - 1, from + 1)
    ELSE LinkPos(items, k, from + 1)

\* What is written between the k-th link and the next one.
Between(items, k) ==
    SubSeq(items, LinkPos(items, k, 1) + 1, LinkPos(items, k + 1, 1) - 1)

Count(items, x) == Len(SelectSeq(items, LAMBDA y : y = x))

\* Between two entries of depths d1 and d2 that follow each other in the
\* outline written, seg is written.
StepsNesting(d1, d2, seg) ==
    /\ Count(seg, "<ol>") = (IF d2 > d1 THEN d2 - d1 ELSE 0)
    /\ Count(seg, "</ol>") = (IF d1 > d2 THEN d1 - d2 ELSE 0)
    /\ seg[Len(seg)] \in {"<li>", LINESEP}
    /\ d1 = d2 => seg = <<"</li>", "<li>", LINESEP>>

\* C16: between two headings that follow each other in the outline written,
\* one list is opened for each step the depth increases, one list is closed
\* for each step it decreases, and for the same depth the item is closed and
\* a new one begun; the headings A (depth 1), B (depth 2), C (depth 1) with
\* the window [1,2] give three items, one list opened between A and B and
\* one closed between B and C.
C16_OutlineNesting ==
    pc = "outlined" =>
        /\ Len(LinksOf(result)) = Len(InWindow(fmt.outline, last))
        /\ \A k \in 1..(Len(InWindow(fmt.outline, last)) - 1) :
              StepsNesting(InWindow(fmt.outline, last)[k][1],
                           InWindow(fmt.outline, last)[k + 1][1],
                           Between(result, k))
        /\ (/\ text = <<Heading(1, "A"), Heading(2, "B"), Heading(1, "C")>>
            /\ last = <<2, 1>>)
              => /\ Count(result, "<li>") = 3
                 /\ Count(Between(result, 1), "<ol>") = 1
                 /\ Count(Between(result, 2), "</ol>") = 1
                 /\ Count(result, "<ol>") = 2

\* The outline of A, B, C has been written for the window [1,2].
C16_Witness ==
    /\ pc = "outlined"
    /\ text = <<Heading(1, "A"), Heading(2, "B"), Heading(1, "C")>>
    /\ last = <<2, 1>>
    /\ Len(fmt.outline) = 3
    /\ Between(result, 1) = <<"<ol>", "<li>">>
    /\ Between(result, 2) = <<"</li>", "</ol>", "<li>">>

\* C17: the links of the outline written are those of the headings with a
\* depth in the window, in their order, the window being the one asked for
\* with its bounds put in order, the lower one raised to 1 and the upper one
\* lowered to 6; the headings outside the window leave no trace: the
\* outline written is the one of the text without them.
C17_OutlineWindow ==
    pc = "outlined" =>
        /\ LinksOf(result) =
              [k \in 1..Len(InWindow(fmt.outline, last)) |->
                  InWindow(fmt.outline, last)[k][2]]
        /\ result = outline_render(InWindow(fmt.outline, last), last[1], last[2])

\* A heading of depth 3 stands between two of depth 2, and the window is
\* asked for as max_depth 1, min_depth 2.
C17_Witness ==
    /\ pc = "outlined"
    /\ text = <<Heading(2, "B"), Heading(3, "D"), Heading(2, "B")>>
    /\ last = <<1, 2>>
    /\ Len(fmt.outline) = 3
    /\ Len(LinksOf(result)) = 2
    /\ Between(result, 1) = <<"</li>", "<li>", LINESEP>>

\* ------------------------------------------- the end of a paragraph
\* The closing tags of the frames of a toggle stack, the top one first.
RECURSIVE ClosersTopFirst(_)
ClosersTopFirst(tags) ==
    IF tags = <<>> THEN <<>>
    ELSE <<tags[Len(tags)][2]>> \o ClosersTopFirst(SubSeq(tags, 1, Len(tags) - 1))

\* The last step was an empty line or the end of the input, met with a
\* paragraph open: the first thing it did was to close the paragraph.
ParagraphClosed ==
    /\ prev.paragraph_open # 0
    /\ \/ pc = "done"
       \/ pc = "lines" /\ text # <<>> /\ text[Len(text)] = <<>>

\* C18: when an open paragraph is closed, what is written is the closing
\* tag of every frame of the toggle stack, from the top of the stack to the
\* bottom, and then the end of the paragraph, with no opening tag among
\* them, and the toggle stack is empty afterwards.
C18_ParagraphClosesToggles ==
    /\ ParagraphClosed =>
          /\ SubSeq(fmt.out, Len(prev.out) + 1,
                    Len(prev.out) + Len(prev.open_tags) + 2)
                = ClosersTopFirst(prev.open_tags) \o <<"</p>", LINESEP>>
          /\ fmt.open_tags = <<>>
          /\ fmt.paragraph_open = 0
    /\ fmt.paragraph_open # 0 =>
          /\ close_paragraph(fmt).out
                = fmt.out \o ClosersTopFirst(fmt.open_tags) \o <<"</p>", LINESEP>>
          /\ close_paragraph(fmt).open_tags = <<>>

\* An empty line closes a paragraph in which bold and then italic were left
\* open.
C18_Witness ==
    /\ pc = "lines"
    /\ text = <<<<BOLD_TOKEN, "text">>, <<ITALIC_TOKEN, "text">>, <<>>>>
    /\ prev.paragraph_open # 0
    /\ prev.open_tags = <<BOLD, ITALIC>>
    /\ fmt.open_tags = <<>>
    /\ SubSeq(fmt.out, Len(prev.out) + 1, Len(fmt.out))
          = <<"</i>", "</strong>", "</p>", LINESEP>>

\* ------------------------------------------------ a pair toggled twice
\* The token tok, whose pair is not open in f, is met twice: a is what the
\* first does on f and b what the second does on a.f.
OpensThenCloses(f, tok, a, b) ==
    /\ a.ret = <<PairOfToken(tok)[1]>>
    /\ a.f.open_tags = Append(f.open_tags, PairOfToken(tok))
    /\ b.ret = <<PairOfToken(tok)[2]>>
    /\ b.f.open_tags = f.open_tags

\* The last four tokens of the line were the token tok, and its pair was
\* not open before them.
ToggledTwice(tok) ==
    /\ Len(text) >= 4
    /\ \A k \in 0..3 : text[Len(text) - k] = tok
    /\ prev.open_tags # <<>>
    /\ prev.open_tags[Len(prev.open_tags)] = PairOfToken(tok)
    /\ ~tag_open_p(fmt, PairOfToken(tok))

\* C19: in every state of a line, a toggle token whose pair is not open
\* opens it on top of the stack, and the same token right after closes it
\* and leaves the stack as it was; so the token met four times in a row
\* writes an opening tag, a closing tag, a second opening tag and a second
\* closing tag: two spans, not one.
C19_DoubleToggle ==
    /\ \A tok \in SimpleToggleTokens :
          ~tag_open_p(fmt, PairOfToken(tok)) =>
              OpensThenCloses(fmt, tok, re_sub(fmt, <<tok>>),
                              re_sub(re_sub(fmt, <<tok>>).f, <<tok>>))
    /\ \A tok \in SimpleToggleTokens :
          ToggledTwice(tok) =>
              /\ SubSeq(result, Len(result) - 3, Len(result))
                    = <<PairOfToken(tok)[1], PairOfToken(tok)[2],
                        PairOfToken(tok)[1], PairOfToken(tok)[2]>>
              /\ fmt.open_tags = SubSeq(prev.open_tags, 1, Len(prev.open_tags) - 1)

\* The bold token has been met four times after an italic one.
C19_Witness ==
    /\ text = <<ITALIC_TOKEN, BOLD_TOKEN, BOLD_TOKEN, BOLD_TOKEN, BOLD_TOKEN>>
    /\ result = <<"<i>", "<strong>", "</strong>", "<strong>", "</strong>">>
    /\ fmt.open_tags = <<ITALIC>>
    /\ prev.open_tags = <<ITALIC, BOLD>>

\* ------------------------------------------------- comment fences
\* The last step closed a fence whose first line selected the comment
\* processor: its end marker was read, or the input ended in it.
CommentFenceClosed ==
    /\ prev.in_code_block > 0
    /\ prev.code_processor.processor = "comment"
    /\ fmt.in_code_block = 0
    /\ pc \in {"lines", "done", "aborted"}

\* C20: a fence whose first line selects the comment processor writes
\* nothing, whatever lines it holds: when it is closed, the output is what
\* it was but for the end of a table or paragraph that was open, and the
\* text {{{, #!comment, hidden, }}} is formatted to the empty output.
C20_CommentFenceSilent ==
    /\ CommentFenceClosed =>
          /\ pc # "aborted"
          /\ fmt.out = IF pc = "done" THEN StructuresClosed(prev).out
                       ELSE close_paragraph(close_table(prev)).out
    /\ (/\ pc = "done"
        /\ text = <<<<STARTBLOCK>>, <<"#!comment">>, <<"hidden">>, <<ENDBLOCK>>>>)
          => fmt.out = <<>>

\* The text {{{, #!comment, hidden, }}} has been formatted, and the end
\* marker closed the fence with the line in its buffer.
C20_Witness ==
    /\ pc = "done"
    /\ text = <<<<STARTBLOCK>>, <<"#!comment">>, <<"hidden">>, <<ENDBLOCK>>>>
    /\ fmt.code_processor.processor = "comment"
    /\ fmt.code_text = <<<<"hidden">>>>
    /\ fmt.out = <<>>

\* ===================================================== C21: empty lines
\* The last step of the loop met an empty line.
BlankLineMet == pc = "lines" /\ text # <<>> /\ last = <<>>

TableState(f) == <<f.in_table, f.in_table_row, f.in_table_cell>>

BlankCloses ==
    /\ fmt.paragraph_open = 0
    /\ fmt.quote_stack = <<>>
    /\ fmt.list_stack = <<>>
    /\ fmt.in_def_list = 0

\* C21, as stated: an empty line closes the paragraph, the quotes, the
\* lists and the definition list and leaves the table state as it was, so a
\* table open before the empty line is open after it.
C21_BlankKeepsTable ==
    BlankLineMet => BlankCloses /\ TableState(fmt) = TableState(prev)

\* C21, amended: an empty line closes the paragraph, the quotes, the lists
\* and the definition list; it leaves the table state as it was when no
\* quote is open, and closes the table with the quotes when one is.
C21_BlankKeepsTableOutsideQuote ==
    BlankLineMet =>
        /\ BlankCloses
        /\ prev.quote_stack = <<>> => TableState(fmt) = TableState(prev)
        /\ prev.quote_stack # <<>> => fmt.in_table = 0

C21_Witness ==
    /\ BlankLineMet
    /\ prev.in_table # 0
    /\ prev.quote_stack = <<>>
    /\ fmt.in_table # 0

\* ======================================================= C22: citations
\* The last step of the loop met a line that begins with ">".
CitationMet == pc = "lines" /\ text # <<>> /\ last # <<>> /\ last[1] = ">"

\* C22: after a line that begins with a run of n ">" characters exactly n
\* quote frames are open, whatever frames were open before the line.
C22_CitationDepth ==
    CitationMet => Len(fmt.quote_stack) = RunLen(last, 1, ">")

\* ================================================= C23: indented lines
\* The last step of the loop met an indented line that is not a list item,
\* a definition or a heading (a citation begins with ">").
IndentMet ==
    /\ pc = "lines" /\ text # <<>> /\ last # <<>>
    /\ last[1] = SP
    /\ ListLen(last) = 0 /\ DefinitionLen(last) = 0 /\ HeadingLen(last) = 0

\* The stops of the history strictly between the depths low and high.
StopsBetween(tabstops, low, high) ==
    {i \in 1..Len(tabstops) : low < tabstops[i] /\ tabstops[i] < high}

\* C23, as stated: one indented line that is not a list item, a definition
\* or a citation adds at most one quote frame.
C23_IndentOpensOne ==
    IndentMet => Len(fmt.quote_stack) <= Len(prev.quote_stack) + 1

\* C23, amended: one indented line that is not a list item, a definition or
\* a citation adds at most one quote frame for the measured depth and one
\* for each stop of the tabstop history strictly between the quote depth
\* before the line and the measured depth.
C23_IndentOpensPerStop ==
    IndentMet =>
        Len(fmt.quote_stack) <=
            Len(prev.quote_stack) + 1
            + Cardinality(StopsBetween(prev.tabstops, get_quote_depth(prev),
                                       LeadingSpaces(last)))

C23_Witness ==
    /\ IndentMet
    /\ StopsBetween(prev.tabstops, get_quote_depth(prev),
                    LeadingSpaces(last)) # {}
    /\ Len(fmt.quote_stack) = Len(prev.quote_stack) + 2

\* ================================================ C24: depths of frames
StrictlyAscending(depths) ==
    \A i \in 1..(Len(depths) - 1) : depths[i] < depths[i + 1]

ListDepths(f) == [i \in 1..Len(f.list_stack) |-> f.list_stack[i][2]]

\* C24: in every reachable state the depths on the list stack and the
\* depths on the quote stack are strictly increasing from bottom to top.
C24_DepthsAscending ==
    /\ StrictlyAscending(ListDepths(fmt))
    /\ StrictlyAscending(fmt.quote_stack)

\* Three quotes are opened by a line that follows two nested lists.
C24_Witness ==
    /\ pc = "lines"
    /\ Len(prev.list_stack) >= 2
    /\ Len(fmt.quote_stack) >= 3

\* ======================================================= C25: tabstops
\* The indentation depths a stop is set at.
TabDepths == 1..7

\* C25: setting a stop d leaves the stops below d, in their order, followed
\* by d; the history is strictly ascending in every reachable state, and
\* setting d twice is setting it once.
C25_SetTab ==
    /\ StrictlyAscending(fmt.tabstops)
    /\ \A d \in TabDepths :
          /\ set_tab(fmt, d).tabstops
                = SelectSeq(fmt.tabstops, LAMBDA t : t < d) \o <<d>>
          /\ set_tab(set_tab(fmt, d), d) = set_tab(fmt, d)

\* A line has set a stop in a history of two stops, one of which it cut.
C25_Witness ==
    /\ pc = "lines"
    /\ Len(prev.tabstops) >= 2
    /\ fmt.tabstops # prev.tabstops
    /\ Len(fmt.tabstops) >= 2
    /\ \E i \in 1..Len(prev.tabstops) :
          prev.tabstops[i] >= fmt.tabstops[Len(fmt.tabstops)]

\* ===================================================== C26: list items
\* The last step of the loop met a list item.
ListItemMet == pc = "lines" /\ text # <<>> /\ ListLen(last) > 0

ItemDepth(line) == LeadingSpaces(line)

ItemType(line) ==
    IF line[LeadingSpaces(line) + 1] \in {"-", "*"} THEN "ul" ELSE "ol"

\* The frames of a list stack that are not deeper than d, and the others.
FramesUpTo(stack, d) == SelectSeq(stack, LAMBDA fr : fr[2] <= d)

FramesBeyond(stack, d) == SelectSeq(stack, LAMBDA fr : fr[2] > d)

ListOpeners(items) == Count(items, "<ul>") + Count(items, "<ol>")

StartsWith(items, part) ==
    Len(items) >= Len(part) /\ SubSeq(items, 1, Len(part)) = part

\* What a list item of type t at depth d does to the list stack stack, kept
\* being its frames not deeper than d and w what the line has written.
ItemPlaced(stack, kept, t, d, w) ==
    IF stack = <<>> \/ d > stack[Len(stack)][2]
    THEN /\ fmt.list_stack = Append(stack, <<t, d>>)
         /\ ListOpeners(w) = 1
    ELSE /\ StartsWith(w, ListClosers(FramesBeyond(stack, d)))
         /\ IF kept = <<>>
            THEN /\ fmt.list_stack = <<<<t, d>>>>
                 /\ ListOpeners(w) = 1
            ELSE IF kept[Len(kept)][1] # t
            THEN /\ fmt.list_stack
                      = Append(SubSeq(kept, 1, Len(kept) - 1), <<t, d>>)
                 /\ StartsWith(w, ListClosers(FramesBeyond(stack, d))
                                  \o ListClosers(<<kept[Len(kept)]>>))
                 /\ ListOpeners(w) = 1
            ELSE /\ fmt.list_stack = [kept EXCEPT ![Len(kept)][2] = d]
                 /\ Len(fmt.list_stack) = Len(kept)
                 /\ StartsWith(w, ListClosers(FramesBeyond(stack, d))
                                  \o <<"</li>", "<li>">>)
                 /\ ListOpeners(w) = 0

\* C26: a list item deeper than the innermost list pushes a frame and opens
\* a list; otherwise the deeper frames are popped and closed, then a frame
\* of another type is closed and a list opened at the depth, while a frame
\* of the same type gets the depth recorded and only an item boundary is
\* written, the height of the stack unchanged.
C26_ListItemPlaced ==
    ListItemMet =>
        ItemPlaced(prev.list_stack,
                   FramesUpTo(prev.list_stack, ItemDepth(last)),
                   ItemType(last), ItemDepth(last), Written)

\* An item of the type of the frame left on top, at another depth.
C26_Witness ==
    /\ ListItemMet
    /\ FramesBeyond(prev.list_stack, ItemDepth(last)) # <<>>
    /\ FramesUpTo(prev.list_stack, ItemDepth(last)) # <<>>
    /\ prev.list_stack[1] = <<ItemType(last), 1>>
    /\ ItemDepth(last) = 2
    /\ fmt.list_stack = <<<<ItemType(last), 2>>>>

\* ============================================ C27: lines within a fence
\* The last step of the loop met a line with the fence counter non-zero,
\* or the start marker of a fence.
FenceLineMet ==
    /\ pc = "lines" /\ text # <<>>
    /\ prev.in_code_block # 0 \/ strip(last) = <<STARTBLOCK>>

BlockState(f) ==
    [list_stack |-> f.list_stack, quote_stack |-> f.quote_stack,
     tabstops |-> f.tabstops, open_tags |-> f.open_tags,
     paragraph_open |-> f.paragraph_open, in_def_list |-> f.in_def_list,
     table |-> TableState(f)]

\* The closing tags of an open table and of an open paragraph.
TableClosers(f) ==
    IF f.in_table = 0 THEN <<>>
    ELSE (IF f.in_table_row = 0 THEN <<>>
          ELSE (IF f.in_table_cell # 0 THEN <<"</td>">> ELSE <<>>) \o <<"</tr>">>)
         \o <<"</table>", LINESEP>>

ParagraphClosers(f) ==
    IF f.paragraph_open = 0 THEN <<>>
    ELSE ClosersTopFirst(f.open_tags) \o <<"</p>", LINESEP>>

\* The line leaves the counter non-zero: it is buffered or selects the
\* processor, and nothing else happens.
FenceLineBuffered ==
    /\ BlockState(fmt) = BlockState(prev)
    /\ fmt.out = prev.out
    /\ strip(last) \in {<<STARTBLOCK>>, <<ENDBLOCK>>} /\ prev.in_code_block # 0
          => fmt.code_text = Append(prev.code_text, last)

\* The line brings the counter back to zero: the processor selected, if
\* any, is given the buffered text and what it returns is written, once,
\* behind the end of an open table and paragraph.
FenceLineProcessed ==
    /\ fmt.list_stack = prev.list_stack
    /\ fmt.quote_stack = prev.quote_stack
    /\ fmt.in_def_list = prev.in_def_list
    /\ IF prev.code_processor = NoProcessor
       THEN fmt.out = prev.out /\ BlockState(fmt) = BlockState(prev)
       ELSE /\ Written = TableClosers(prev) \o ParagraphClosers(prev)
                         \o process(prev.code_processor, prev.code_text,
                                    FALSE).ret
            /\ fmt.in_table = 0 /\ fmt.paragraph_open = 0

\* C27: while the fence counter is non-zero no line goes to the pattern
\* rules and the list stack, quote stack, paragraph, table and definition
\* list stay as they are; the processor is invoked and its output written
\* only at the step that brings the counter back to zero, once for the
\* outermost fence, the nested markers kept in the buffered text.
C27_FenceBuffers ==
    FenceLineMet =>
        /\ result = <<>>
        /\ IF fmt.in_code_block # 0 THEN FenceLineBuffered
           ELSE FenceLineProcessed

\* The end of an outermost fence that holds a nested one.
C27_Witness ==
    /\ FenceLineMet
    /\ prev.in_code_block = 1
    /\ fmt.in_code_block = 0
    /\ \E i \in 1..Len(prev.code_text) : prev.code_text[i] = <<STARTBLOCK>>
    /\ Written # <<>>

\* ================================================ C28: horizontal rules
\* The last step of the loop met a horizontal rule.
RuleMet == pc = "lines" /\ text # <<>> /\ last # <<>> /\ last[1] = "----"

DefListClosers(f) ==
    IF f.in_def_list # 0 THEN <<"</dd>", "</dl>", LINESEP>> ELSE <<>>

\* The closing tags of the table, the paragraph, the quotes, the lists and
\* the definition list of f, in this order.
AllClosers(f) ==
    TableClosers(f) \o ParagraphClosers(f)
    \o QuoteClosers(Len(f.quote_stack)) \o ListClosers(f.list_stack)
    \o DefListClosers(f)

NoneOpen(f) ==
    /\ TableState(f) = <<0, 0, 0>>
    /\ f.paragraph_open = 0 /\ f.open_tags = <<>>
    /\ f.quote_stack = <<>> /\ f.list_stack = <<>>
    /\ f.in_def_list = 0

\* C28: a line that begins with the rule token closes the table, the
\* paragraph, the quotes, the lists and the definition list, in this order,
\* and then writes one rule element; none of them is open after it.
C28_RuleClosesAll ==
    RuleMet =>
        /\ Written = AllClosers(prev) \o <<"<hr />", LINESEP>>
        /\ NoneOpen(fmt)

\* A rule met with a list open inside a definition list.
C28_Witness ==
    /\ RuleMet
    /\ prev.in_def_list # 0
    /\ prev.list_stack # <<>>
    /\ NoneOpen(fmt)

\* ========================================================= C29: headings
\* The level written for a heading line: min(N, 5) for a run of N "=".
HeadingLevel(line) == IF RunLen(line, 1, "=") < 5 THEN RunLen(line, 1, "=") ELSE 5

HeadingOpener(level, anchor) ==
    "<h" \o ToString(level) \o " id=\"" \o anchor \o "\">"

\* C29: a heading line closes the table, the paragraph, the quotes, the
\* lists and the definition list before the heading element is written,
\* and the level written is min(N, 5) for a run of N "=" characters.
C29_HeadingClosesAll ==
    HeadingHandled =>
        /\ StartsWith(Written,
                      AllClosers(prev)
                      \o <<HeadingOpener(HeadingLevel(last),
                                         fmt.anchors[Len(fmt.anchors)])>>)
        /\ Written[Len(Written) - 1]
              = "</h" \o ToString(HeadingLevel(last)) \o ">"
        /\ NoneOpen(fmt)

\* A heading of six "=" met with a table open inside a quote.
C29_Witness ==
    /\ HeadingHandled
    /\ RunLen(last, 1, "=") = 6
    /\ prev.in_table # 0
    /\ prev.quote_stack # <<>>
    /\ Count(Written, "</h5>") = 1

\* ====================================================== C30: table rows
\* The last step of the loop met a line with a cell separator.
RowMet ==
    /\ pc = "lines" /\ text # <<>>
    /\ \E q \in 1..Len(last) : last[q] = "||"

\* C30: after each line no table row and no table cell is open: a row
\* opened on a line is closed before the next line is read, also when the
\* table stays open.
C30_NoRowAcrossLines ==
    /\ fmt.in_table_row = 0
    /\ fmt.in_table_cell = 0
    /\ RowMet =>
          /\ Count(Written, "<tr>") = 1
          /\ Count(Written, "</tr>") = 1
          /\ Count(Written, "<td>") = Count(Written, "</td>")

\* A second row of a table that stays open.
C30_Witness ==
    /\ RowMet
    /\ prev.in_table # 0
    /\ fmt.in_table # 0
    /\ Count(Written, "</tr>") = 1
    /\ Count(Written, "</table>") = 0

\* ============================================ C31: fences in the outline
\* The Formatter of the Document variant after the lines of a text, f being
\* the one before them.
RECURSIVE DocumentAfter(_, _)
DocumentAfter(f, lines) ==
    IF lines = <<>> THEN f
    ELSE DocumentAfter(format_line(f, Head(lines)).f, Tail(lines))

\* The last step of the loop of the Outline variant met a line.
OutlineLineMet == pc = "lines" /\ text # <<>> /\ fmt.flavor = "outline"

\* C31: after every line of a text the Outline variant has the fence
\* counter of the Document variant, and a heading line inside a fence adds
\* no entry to the outline.
C31_OutlineFences ==
    OutlineLineMet =>
        /\ fmt.in_code_block
             = DocumentAfter(format_reset(Formatter_init), text).in_code_block
        /\ prev.in_code_block # 0 => fmt.outline = prev.outline

\* A heading met inside a fence nested in another.
C31_Witness ==
    /\ OutlineLineMet
    /\ HeadingLen(last) > 0
    /\ prev.in_code_block = 2
    /\ fmt.in_code_block = 2
    /\ fmt.outline = <<>>

\* ============================================ C32: the outline balanced
\* C32: for every list of headings and every window the outline written is
\* a balanced nested list: as many <ol> as </ol>, also when min_depth is
\* above 1 and when no heading is in the window.
C32_OutlineBalanced ==
    pc = "outlined" => Count(result, "<ol>") = Count(result, "</ol>")

\* ============================================ C33: toggles at the end
\* C33: when format() returns the toggle stack is empty and every toggle
\* tag opened during the pass has had its closing tag written, also for
\* toggles opened where no paragraph is open.
C33_TogglesClosedAtEnd ==
    pc = "done" =>
        /\ fmt.open_tags = <<>>
        /\ Count(fmt.out, "<strong>") = Count(fmt.out, "</strong>")
        /\ Count(fmt.out, "<i>") = Count(fmt.out, "</i>")

\* ================================================ C34: escaped output
\* The characters of the wiki text that are written as character entities.
RawCharacters == {"<", ">", "&"}

\* C34: a "<", ">" or "&" of the wiki text (none of it is given to a macro
\* or to the html processor here) is written in escaped form only, also
\* inside a token behind the escape character.
C34_EscapedOutput ==
    \A i \in 1..Len(fmt.out) : fmt.out[i] \notin RawCharacters

\* ================================================= C35: cells in rows
\* The item at position i of items lies in a row: a <tr> is before it with
\* no </tr> between them, and a </tr> behind it with no <tr> between them.
InRow(items, i) ==
    /\ \E j \in 1..(i - 1) :
          /\ items[j] = "<tr>"
          /\ \A k \in (j + 1)..(i - 1) : items[k] # "</tr>"
    /\ \E j \in (i + 1)..Len(items) :
          /\ items[j] = "</tr>"
          /\ \A k \in (i + 1)..(j - 1) : items[k] # "<tr>"

\* C35: every <td> is written after the <tr> of its row and before the
\* </tr> of that row, for every line, also when the cell separator comes
\* behind other text.
C35_CellsInRows ==
    \A i \in 1..Len(fmt.out) : fmt.out[i] = "<td>" => InRow(fmt.out, i)


\* C36: a delete event for the InterMapTxt page is handled without error
\* in every reachable state of the component, the state in which the map
\* has never been loaded included.
C36_DeleteHandled == last = <<"deleted">> => pc # "raised"

\* The prefixes the text of the page defines: the lines of the form
\* prefix, blanks, url that stand after an odd number of delimiter lines.
InSection(content, i) ==
    Cardinality({j \in 1..(i - 1) : content[j][1] = "----"}) % 2 = 1

DefinedPrefixes(content) ==
    {Upper(content[i][1]) :
        i \in {k \in 1..Len(content) :
                  /\ content[k][1] # "----"
                  /\ interwiki_re_match(content[k])
                  /\ InSection(content, k)}}

\* C37: after any sequence of added, changed, version-deleted and deleted
\* events for the InterMapTxt page, a has_key lookup answers according to
\* the entries the current text of the page defines, both the lookup that
\* was made last and any lookup that could be made next.
C37_LookupCurrent ==
    /\ \A ns \in Namespaces :
          has_key(fmt, page_text(text), ns).ret
              = (Upper(ns) \in DefinedPrefixes(page_text(text)))
    /\ (last # <<>> /\ last[1] = "has_key")
          => ret = (Upper(last[2]) \in DefinedPrefixes(page_text(text)))

\* A lookup answered from the cache after the page changed: the prefix was
\* defined by the first version and is not defined any more.
C37_Witness ==
    /\ last = <<"has_key", "mw">>
    /\ ~prev.interwiki_map_is_none
    /\ DOMAIN prev.interwiki_map # {}
    /\ Len(text) >= 2
    /\ "MW" \in DefinedPrefixes(text[1])
    /\ ret = FALSE


\* C38: in no reachable state of Document format() is a paragraph open
\* while a table is open, nor while the list stack is non-empty.
C38_ParagraphAlone ==
    fmt.paragraph_open # 0 => fmt.in_table = 0 /\ fmt.list_stack = <<>>

\* A line opened a table while a paragraph was open, and the paragraph
\* was closed for it.
C38_Witness ==
    /\ prev.paragraph_open # 0
    /\ prev.in_table = 0
    /\ fmt.in_table # 0
    /\ fmt.paragraph_open = 0
    /\ Contains(Written, <<"</p>">>)


\* C39: the fence counter is never negative in the Document, the Outline
\* and the Inline variant, and an end-fence line met while the counter is
\* zero leaves it zero.
C39_FenceCounter ==
    /\ fmt.in_code_block >= 0
    /\ pc \in {"inline", "inlined"} => ret.n >= 0
    /\ (pc = "lines" /\ text # <<>> /\ strip(last) = <<ENDBLOCK>>
           /\ prev.in_code_block = 0)
          => fmt.in_code_block = 0
    /\ (pc = "inline" /\ text # <<>> /\ strip(last) = <<ENDBLOCK>>
           /\ prev.n = 0)
          => ret.n = 0

\* The Inline variant met an end marker behind a fence that was closed.
C39_Witness ==
    /\ pc = "inline"
    /\ Len(text) >= 3
    /\ text[1] = <<STARTBLOCK>>
    /\ strip(last) = <<ENDBLOCK>>
    /\ prev.n = 0
    /\ ret.n = 0


\* C40: after any sequence of toggle tokens, the combined bold-italic
\* token included, the toggle stack holds no (open, close) pair twice, and
\* so at most six frames.
C40_NoPairTwice ==
    /\ \A i, j \in 1..Len(fmt.open_tags) :
          i # j => fmt.open_tags[i] # fmt.open_tags[j]
    /\ Len(fmt.open_tags) <= 6

\* The combined token opened the two frames that were left to open.
C40_Witness ==
    /\ last = <<BOLDITALIC_TOKEN>>
    /\ Len(prev.open_tags) = 4
    /\ Len(fmt.open_tags) = 6

====
